---- MODULE Spec2Model ----
(***************************************************************************)
(* A model of the marble physics core (PhysicsEngine, Marble, Vector2D)    *)
(* and of its driver (Game).                                               *)
(*                                                                         *)
(* Numbers.  The program computes with JavaScript doubles.  The model      *)
(* keeps every length, speed and time in fixed point, in units of          *)
(* 1/Scale = 0.001 (the engine's derivativeStep), rounded to nearest.      *)
(* Values returned by a curve's evaluator are kept in units of 1/Scale^2   *)
(* ("fine" values) so that the difference quotients taken with step 0.001  *)
(* are not drowned in rounding.  The non-numbers NaN, +Infinity and        *)
(* -Infinity are three values outside the finite range, with the           *)
(* arithmetic and comparison rules of IEEE-754; Throw stands for an        *)
(* evaluator call that raised an exception.                                *)
(***************************************************************************)
EXTENDS Integers, Sequences, FiniteSets, TLC

VARIABLES
    equations,      \* Game.equations / the `equations` argument: list of curves
    stars,          \* Game.stars / the `stars` argument: list of targets
    marbles,        \* Game.marbles: list of Marble objects
    starsCollected, \* Game.starsCollected
    gameRunning,    \* Game.gameRunning
    level,          \* Game.level
    start,          \* history: the situation the run began from
    last,           \* what the latest handler did: per-call results and probes
    pushed,         \* history: every position ever appended to a marble's trail
    reported,       \* history: how often each star was put in a result.starsCollected
    steps           \* history: number of handler calls so far

vars == <<equations, stars, marbles, starsCollected, gameRunning, level,
          start, last, pushed, reported, steps>>

-----------------------------------------------------------------------------
(* JavaScript numbers in fixed point *)

Scale == 1000

NaN == 2000000003
PInf == 2000000001
NInf == -2000000001
Throw == 2000000005

isFinite(a) == a > NInf /\ a < PInf

AbsI(n) == IF n < 0 THEN -n ELSE n
SgnI(n) == IF n > 0 THEN 1 ELSE IF n < 0 THEN -1 ELSE 0
MaxI(a, b) == IF a >= b THEN a ELSE b
MinI(a, b) == IF a <= b THEN a ELSE b

\* n / d rounded to the nearest integer (d > 0)
RDiv(n, d) ==
    IF n >= 0 THEN (n + d \div 2) \div d ELSE -((d \div 2 - n) \div d)

\* floor of the square root of n >= 0, one binary digit at a time
RECURSIVE SqrtBits(_, _, _)
SqrtBits(n, r, bit) ==
    IF bit = 0 THEN r
    ELSE IF (r + bit) <= n \div (r + bit)
         THEN SqrtBits(n, r + bit, bit \div 2)
         ELSE SqrtBits(n, r, bit \div 2)

\* the square root of n >= 0 rounded to nearest, given its floor r
RoundRoot(n, r) == IF n - r * r > r THEN r + 1 ELSE r
ISqrt(n) == RoundRoot(n, SqrtBits(n, 0, 32768))

\* sqrt(x^2 + y^2) of two finite integers, both divided by s first so that
\* the squares stay in the integer range
HypotBy(x, y, s) == s * ISqrt((x \div s) * (x \div s) + (y \div s) * (y \div s))
HypotOf(x, y, m) == HypotBy(x, y, IF m <= 30000 THEN 1 ELSE IF m <= 1900000 THEN 64 ELSE 65536)
Hypot(x, y) == HypotOf(x, y, MaxI(AbsI(x), AbsI(y)))

Neg(a) ==
    IF isFinite(a) THEN -a
    ELSE IF a = PInf THEN NInf ELSE IF a = NInf THEN PInf ELSE NaN

Add(a, b) ==
    IF isFinite(a) /\ isFinite(b) THEN a + b
    ELSE IF a = NaN \/ b = NaN \/ (a = PInf /\ b = NInf) \/ (a = NInf /\ b = PInf) THEN NaN
    ELSE IF isFinite(a) THEN b ELSE a

Sub(a, b) == Add(a, Neg(b))

\* a * b of two finite fixed-point numbers
MulI(a, b) ==
    IF AbsI(a) <= 40000 /\ AbsI(b) <= 40000 THEN RDiv(a * b, Scale)
    ELSE IF AbsI(a) >= AbsI(b) THEN (a \div Scale) * b + RDiv((a % Scale) * b, Scale)
    ELSE (b \div Scale) * a + RDiv((b % Scale) * a, Scale)

Mul(a, b) ==
    IF isFinite(a) /\ isFinite(b) THEN MulI(a, b)
    ELSE IF a = NaN \/ b = NaN \/ a = 0 \/ b = 0 THEN NaN
    ELSE IF (a > 0) = (b > 0) THEN PInf ELSE NInf

\* a / b of two finite fixed-point numbers, b # 0
DivI(a, b) ==
    SgnI(b) * (IF AbsI(a) <= 2000000 THEN RDiv(a * Scale, AbsI(b))
               ELSE RDiv(a, AbsI(b)) * Scale)

Div(a, b) ==
    IF isFinite(a) /\ isFinite(b) /\ b # 0 THEN DivI(a, b)
    ELSE IF a = NaN \/ b = NaN THEN NaN
    ELSE IF ~isFinite(a)
         THEN (IF ~isFinite(b) THEN NaN ELSE IF (a > 0) = (b >= 0) THEN PInf ELSE NInf)
    ELSE IF ~isFinite(b) THEN 0
    ELSE IF a = 0 THEN NaN ELSE IF a > 0 THEN PInf ELSE NInf

Abs(a) == IF isFinite(a) THEN AbsI(a) ELSE IF a = NaN THEN NaN ELSE PInf
Sign(a) == IF a = NaN THEN NaN ELSE SgnI(a) * Scale
Sqrt(a) ==
    IF isFinite(a) /\ a >= 0
    THEN (IF a <= 2000000 THEN ISqrt(a * Scale) ELSE RDiv(ISqrt(a) * 31623, Scale))
    ELSE IF a = PInf THEN PInf ELSE NaN

Lt(a, b) == a # NaN /\ b # NaN /\ a < b
Gt(a, b) == Lt(b, a)
Le(a, b) == a # NaN /\ b # NaN /\ a <= b
Ge(a, b) == Le(b, a)

\* a fine value (units of 1/Scale^2) as a fixed-point number
Coarse(f) == IF isFinite(f) THEN RDiv(f, Scale) ELSE f

-----------------------------------------------------------------------------

(* PhysicsEngine configuration (the defaults of the constructor) *)

gravity == -9800
timeScale == 16
rollingFriction == 20
airDrag == 10
snapDistance == 500
snapStrength == 400
detachThreshold == 300
maxSlopeAngle == 1047
minVelocity == 1
derivativeStep == 1

-----------------------------------------------------------------------------
(* Vector2D *)

Vector2D(x, y) == [x |-> x, y |-> y]
clone(v) == Vector2D(v.x, v.y)
add(v, w) == Vector2D(Add(v.x, w.x), Add(v.y, w.y))
sub(v, w) == Vector2D(Sub(v.x, w.x), Sub(v.y, w.y))
mul(v, s) == Vector2D(Mul(v.x, s), Mul(v.y, s))
div(v, s) == IF s = 0 THEN Vector2D(0, 0) ELSE Vector2D(Div(v.x, s), Div(v.y, s))

\* Math.sqrt(x * x + y * y)
SqrtSumSq(x, y) ==
    IF x = NaN \/ y = NaN THEN NaN
    ELSE IF ~isFinite(x) \/ ~isFinite(y) THEN PInf
    ELSE Hypot(x, y)

magnitude(v) == SqrtSumSq(v.x, v.y)
normalize(v) ==
    LET mag == magnitude(v)
    IN  IF mag = 0 THEN Vector2D(0, 0) ELSE div(v, mag)
dot(v, w) == Add(Mul(v.x, w.x), Mul(v.y, w.y))
perpendicular(v) == Vector2D(Neg(v.y), v.x)
lerp(v, w, t) ==
    Vector2D(Add(v.x, Mul(Sub(w.x, v.x), t)), Add(v.y, Mul(Sub(w.y, v.y), t)))
distanceTo(v, w) == SqrtSumSq(Sub(v.x, w.x), Sub(v.y, w.y))
\* obj.x || 0: NaN and 0 both become 0
fromObject(obj) ==
    Vector2D(IF obj.x = NaN THEN 0 ELSE obj.x, IF obj.y = NaN THEN 0 ELSE obj.y)
isFiniteVec(v) == isFinite(v.x) /\ isFinite(v.y)

-----------------------------------------------------------------------------
(* Curves: the equation objects built by EquationParser.  A curve is        *)
(* [id, type, fn, a, b, c, d]: id is the object's identity, fn names its    *)
(* compiled expression and a..d are the numbers in it.  Evaluators return   *)
(* fine values, or NaN / PInf / NInf, or Throw when the call raises.        *)

Curve(id, type, fn, a, b, c, d) ==
    [id |-> id, type |-> type, fn |-> fn, a |-> a, b |-> b, c |-> c, d |-> d]

\* a * x + b for a fixed-point argument x, as a fine value
LinearFine(a, b, x) ==
    IF x = NaN THEN NaN
    ELSE IF ~isFinite(x)
         THEN (IF a = 0 THEN NaN ELSE IF SgnI(x) * SgnI(a) > 0 THEN PInf ELSE NInf)
    ELSE a * x + b * Scale

\* a * x^2 for a fixed-point argument x, as a fine value
SquareFine(a, x) ==
    IF x = NaN \/ (a = 0 /\ ~isFinite(x)) THEN NaN
    ELSE IF ~isFinite(x) THEN (IF a > 0 THEN PInf ELSE NInf)
    ELSE ((a * x) \div Scale) * x + RDiv(((a * x) % Scale) * x, Scale)

\* equation.evaluate(x) of the one-argument kinds (explicit_y, explicit_x,
\* constant_y, constant_x, piecewise, polar)
evaluate(equation, x) ==
    CASE equation.fn = "const"     -> equation.b * Scale
      [] equation.fn = "linear"    -> LinearFine(equation.a, equation.b, x)
      [] equation.fn = "square"    -> SquareFine(equation.a, x)
      [] equation.fn = "halfline"  ->
            \* piecewise: a*x + b {x >= c}; NaN where the condition fails
            IF Ge(x, equation.c) THEN LinearFine(equation.a, equation.b, x) ELSE NaN
      [] equation.fn = "undefined" -> NaN
      [] equation.fn = "infinite"  -> PInf
      [] equation.fn = "raise"     -> Throw
      [] OTHER                     -> Throw

\* equation.evaluate(x, y) of an implicit curve
evaluate2(equation, x, y) ==
    CASE equation.fn = "circle"    ->
            \* x^2 + y^2 - a^2
            IF x = NaN \/ y = NaN THEN NaN
            ELSE IF ~isFinite(x) \/ ~isFinite(y) THEN PInf
            ELSE x * x + y * y - equation.a * equation.a
      [] equation.fn = "plane"     ->
            \* a*x + b*y - c
            IF ~isFinite(x) \/ ~isFinite(y) THEN NaN
            ELSE equation.a * x + equation.b * y - equation.c * Scale
      [] equation.fn = "undefined" -> NaN
      [] equation.fn = "raise"     -> Throw
      [] OTHER                     -> Throw

\* equation.evaluateX(t), equation.evaluateY(t) of a parametric curve
evaluateX(equation, t) ==
    CASE equation.fn = "segment"   -> LinearFine(equation.a, equation.b, t)
      [] equation.fn = "undefined" -> NaN
      [] equation.fn = "raise"     -> Throw
      [] OTHER                     -> Throw

evaluateY(equation, t) ==
    CASE equation.fn = "segment"   -> LinearFine(equation.c, equation.d, t)
      [] equation.fn = "undefined" -> NaN
      [] equation.fn = "raise"     -> Throw
      [] OTHER                     -> Throw

-----------------------------------------------------------------------------
(* Numerical methods of PhysicsEngine *)

NullInfo ==
    [ok |-> FALSE, equation |-> 0, closestPoint |-> Vector2D(0, 0), distance |-> 0,
     tangent |-> Vector2D(0, 0), normal |-> Vector2D(0, 0), curvature |-> 0,
     iterations |-> 0, samples |-> 0, threw |-> FALSE]

\* an exception that leaves the analysis uncaught
ThrowInfo == [NullInfo EXCEPT !.threw = TRUE]

PathInfo(equation, closestPoint, distance, tangent, normal, curvature, iterations, samples) ==
    [ok |-> TRUE, equation |-> equation.id, closestPoint |-> closestPoint,
     distance |-> distance, tangent |-> tangent, normal |-> normal,
     curvature |-> curvature, iterations |-> iterations, samples |-> samples,
     threw |-> FALSE]

phi == 1618
tolerance == 1
goldenCap == 50

\* The searches only compare distances with each other.  Math.sqrt keeps the
\* order of its arguments, so the model compares the squares dx^2 + dy^2,
\* which the fixed-point grid holds exactly where a rounded root would tie.
SumOfSquares(dx, dy) ==
    IF ~isFinite(dx) \/ ~isFinite(dy) THEN SqrtSumSq(dx, dy)
    ELSE IF AbsI(dx) <= 30000 /\ AbsI(dy) <= 30000 THEN dx * dx + dy * dy
    ELSE 1800000000 + MinI(Hypot(dx, dy), 100000000)

SquaredDistance(p, q) == SumOfSquares(Sub(p.x, q.x), Sub(p.y, q.y))

\* distanceAt of the two searches: from pos to the curve point at parameter
\* t, whose other coordinate is the (fine) value v the evaluator returned
distanceAtValue(pos, along, t, v) ==
    IF ~isFinite(v) THEN PInf
    ELSE IF along = "x" THEN SquaredDistance(pos, Vector2D(t, Coarse(v)))
    ELSE SquaredDistance(pos, Vector2D(Coarse(v), t))

\* distanceAt of findClosestXOnCurve: the distance from pos to (x, f(x))
distanceAtX(pos, equation, x) == distanceAtValue(pos, "x", x, evaluate(equation, x))

\* distanceAt of findClosestYOnCurve: the distance from pos to (f(y), y)
distanceAtY(pos, equation, y) == distanceAtValue(pos, "y", y, evaluate(equation, y))

\* The loops of the searches run as passes over a loop state s with a `done`
\* flag; 2^k passes are made as two runs of 2^(k-1) passes, the second of them
\* only while the loop has not ended, which keeps the evaluation shallow.
RECURSIVE Doublings(_)
Doublings(n) == IF n <= 1 THEN 0 ELSE 1 + Doublings((n + 1) \div 2)

\* the body of the while loop of the golden section search, given the two
\* probes c and d; along = "x" or "y"
GoldenNarrow(pos, equation, along, s, c, d) ==
    IF Lt(distanceAtValue(pos, along, c, evaluate(equation, c)),
          distanceAtValue(pos, along, d, evaluate(equation, d)))
    THEN [s EXCEPT !.b = d, !.iterations = @ + 1]
    ELSE [s EXCEPT !.a = c, !.iterations = @ + 1]

\* one pass of `while (Math.abs(b - a) > tolerance && iterations < 50)`
GoldenPass(pos, equation, along, s) ==
    IF s.done THEN s
    ELSE IF ~(Gt(Abs(Sub(s.b, s.a)), tolerance) /\ s.iterations < goldenCap)
         THEN [s EXCEPT !.done = TRUE]
    ELSE GoldenNarrow(pos, equation, along, s,
                      Sub(s.b, Div(Sub(s.b, s.a), phi)), Add(s.a, Div(Sub(s.b, s.a), phi)))

RECURSIVE GoldenPasses(_, _, _, _, _)
RECURSIVE GoldenRest(_, _, _, _, _)
GoldenPasses(pos, equation, along, s, k) ==
    IF k = 0 THEN GoldenPass(pos, equation, along, s)
    ELSE GoldenRest(pos, equation, along, GoldenPasses(pos, equation, along, s, k - 1), k)

GoldenRest(pos, equation, along, mid, k) ==
    IF mid.done THEN mid ELSE GoldenPasses(pos, equation, along, mid, k - 1)

\* `return (a + b) / 2`
GoldenValue(s) == [value |-> Div(Add(s.a, s.b), 2 * Scale), iterations |-> s.iterations]

GoldenLoop(pos, equation, along, a, b, iterations) ==
    GoldenValue(GoldenPasses(pos, equation, along,
                             [a |-> a, b |-> b, iterations |-> iterations, done |-> FALSE],
                             Doublings(goldenCap + 1)))

findClosestXOnCurve(pos, equation, xMin, xMax) ==
    GoldenLoop(pos, equation, "x", xMin, xMax, 0)

findClosestYOnCurve(pos, equation, yMin, yMax) ==
    GoldenLoop(pos, equation, "y", yMin, yMax, 0)

\* (f(x + step) - f(x - step)) / (2 * step), 0 when a probe fails
CentralDifference(y1, y2) ==
    IF y1 = Throw \/ y2 = Throw THEN 0
    ELSE IF ~isFinite(y1) \/ ~isFinite(y2) THEN 0
    ELSE RDiv(y2 - y1, 2 * derivativeStep)

calculateDerivative(equation, x) ==
    CentralDifference(evaluate(equation, Sub(x, derivativeStep)),
                      evaluate(equation, Add(x, derivativeStep)))

\* (f(x - step) - 2 f(x) + f(x + step)) / step^2, 0 when a probe fails
SecondDifference(y0, y1, y2) ==
    IF y0 = Throw \/ y1 = Throw \/ y2 = Throw THEN 0
    ELSE IF ~isFinite(y0) \/ ~isFinite(y1) \/ ~isFinite(y2) THEN 0
    ELSE ((y0 - 2 * y1 + y2) * Scale) \div (derivativeStep * derivativeStep)

calculateSecondDerivative(equation, x) ==
    SecondDifference(evaluate(equation, Sub(x, derivativeStep)), evaluate(equation, x),
                     evaluate(equation, Add(x, derivativeStep)))

calculateDerivativeX(equation, y) == calculateDerivative(equation, y)
calculateSecondDerivativeX(equation, y) == calculateSecondDerivative(equation, y)

\* Math.pow(1 + d * d, 1.5)
Pow15Of(base) == Mul(base, Sqrt(base))
Pow15(d) == Pow15Of(Add(Scale, Mul(d, d)))

\* the path info of an explicit curve once the closest point, the first
\* derivative there and the unit tangent are known
ExplicitInfo(pos, equation, closestPoint, derivative, tangent, secondDerivative, iterations) ==
    PathInfo(equation, closestPoint, distanceTo(pos, fromObject(closestPoint)),
             tangent, perpendicular(tangent),
             Div(Abs(secondDerivative), Pow15(derivative)), iterations, 0)

\* analyzeExplicitY from the point where closestX and y = f(closestX) are known
analyzeExplicitYAt(pos, equation, closestX, y, derivative, iterations) ==
    IF y = Throw \/ ~isFinite(y)
    THEN [NullInfo EXCEPT !.iterations = iterations]
    ELSE ExplicitInfo(pos, equation, Vector2D(closestX, Coarse(y)), derivative,
                      normalize(Vector2D(Scale, derivative)),
                      calculateSecondDerivative(equation, closestX), iterations)

analyzeExplicitYFound(pos, equation, found) ==
    analyzeExplicitYAt(pos, equation, found.value, evaluate(equation, found.value),
                       calculateDerivative(equation, found.value), found.iterations)

analyzeExplicitY(pos, equation) ==
    analyzeExplicitYFound(pos, equation,
        findClosestXOnCurve(pos, equation, Sub(pos.x, 3 * Scale), Add(pos.x, 3 * Scale)))

\* analyzeExplicitX from the point where closestY and x = g(closestY) are known
analyzeExplicitXAt(pos, equation, closestY, x, dxdy, iterations) ==
    IF x = Throw \/ ~isFinite(x)
    THEN [NullInfo EXCEPT !.iterations = iterations]
    ELSE ExplicitInfo(pos, equation, Vector2D(Coarse(x), closestY), dxdy,
                      normalize(Vector2D(dxdy, Scale)),
                      calculateSecondDerivativeX(equation, closestY), iterations)

analyzeExplicitXFound(pos, equation, found) ==
    analyzeExplicitXAt(pos, equation, found.value, evaluate(equation, found.value),
                       calculateDerivativeX(equation, found.value), found.iterations)

analyzeExplicitX(pos, equation) ==
    analyzeExplicitXFound(pos, equation,
        findClosestYOnCurve(pos, equation, Sub(pos.y, 3 * Scale), Add(pos.y, 3 * Scale)))

-----------------------------------------------------------------------------

(* Math.sin, Math.cos, Math.atan2 in fixed point *)

Pi == 3142
TwoPi == 6283
HalfPi == 1571

\* x (1 - x2/6 (1 - x2/20 (1 - x2/42))) for |x| <= pi/2, where x2 = x^2
SinSeries(x, x2) ==
    RDiv(x * (Scale - RDiv(x2 * (Scale - RDiv(x2 * (Scale - RDiv(x2, 42)), 20 * Scale)),
                           6 * Scale)), Scale)
SinTaylor(x) == SinSeries(x, RDiv(x * x, Scale))

\* the angle r in [0, 2 pi) brought to the one in [-pi/2, pi/2] of equal sine
FoldPi(r) ==
    IF r <= HalfPi THEN r ELSE IF r <= Pi + HalfPi THEN Pi - r ELSE r - TwoPi

Sin(x) == IF ~isFinite(x) THEN NaN ELSE SinTaylor(FoldPi(x % TwoPi))
Cos(x) == IF ~isFinite(x) THEN NaN ELSE SinTaylor(FoldPi((x + HalfPi) % TwoPi))

\* atan(z) for 0 <= z <= 1: (pi/4) z + z (1 - z) (0.2447 + 0.0663 z)
AtanUnit(z) ==
    RDiv(785 * z, Scale) + RDiv(RDiv(z * (Scale - z), Scale) * (245 + RDiv(66 * z, Scale)), Scale)

\* atan(ay / ax) for ay, ax >= 0, not both 0
AtanQuadrant(ay, ax) ==
    IF ay <= ax THEN AtanUnit(RDiv(ay * Scale, ax))
    ELSE HalfPi - AtanUnit(RDiv(ax * Scale, ay))

\* the angle of (x, y) given the angle q of (|x|, |y|)
AtanSigned(y, x, q) ==
    IF y < 0 THEN (IF x >= 0 THEN -q ELSE q - Pi) ELSE (IF x >= 0 THEN q ELSE Pi - q)

\* atan2 of two finite numbers, not both 0; s brings them into range
AtanScaled(y, x, s) == AtanSigned(y, x, AtanQuadrant(AbsI(y) \div s, AbsI(x) \div s))

atan2(y, x) ==
    IF y = NaN \/ x = NaN THEN NaN
    ELSE IF ~isFinite(y) \/ ~isFinite(x)
         THEN (IF isFinite(y) THEN (IF x = PInf THEN 0 ELSE IF y < 0 THEN -Pi ELSE Pi)
               ELSE IF isFinite(x) THEN SgnI(y) * HalfPi
               ELSE IF x = PInf THEN SgnI(y) * 785 ELSE SgnI(y) * 2356)
    ELSE IF x = 0 /\ y = 0 THEN 0
    ELSE AtanScaled(y, x, IF AbsI(y) > 2000000 \/ AbsI(x) > 2000000 THEN Scale ELSE 1)

-----------------------------------------------------------------------------
(* Implicit curves *)

\* the gradient from the four probes; (0, 1) when one failed or is not finite
GradientOf(xp, xm, yp, ym) ==
    IF ~isFinite(xp) \/ ~isFinite(xm) \/ ~isFinite(yp) \/ ~isFinite(ym)
    THEN Vector2D(0, Scale)
    ELSE Vector2D(RDiv(xp - xm, 2 * derivativeStep), RDiv(yp - ym, 2 * derivativeStep))

\* nabla f by central differences
calculateGradient(equation, x, y) ==
    GradientOf(evaluate2(equation, Add(x, derivativeStep), y),
               evaluate2(equation, Sub(x, derivativeStep), y),
               evaluate2(equation, x, Add(y, derivativeStep)),
               evaluate2(equation, x, Sub(y, derivativeStep)))

stepSize == 100
implicitIterations == 20
implicitOnCurve == 10

\* f / (gradMag * gradMag) for a fine value f
NewtonStep(f, gradMag) ==
    IF ~isFinite(f) \/ ~isFinite(gradMag) \/ gradMag = 0
    THEN Div(Coarse(f), Mul(gradMag, gradMag))
    ELSE IF AbsI(f) <= 2000000 /\ gradMag <= 40000 THEN RDiv(f * Scale, gradMag * gradMag)
    ELSE RDiv(f, MaxI(1, Mul(gradMag, gradMag)))

\* the gradient step taken up the gradient, away from the curve
ImplicitAscend(s, f, grad, gradMag) ==
    IF Lt(gradMag, 1) THEN [s EXCEPT !.done = TRUE, !.iterations = @ + 1]
    ELSE [x |-> Add(s.x, Mul(Mul(grad.x, NewtonStep(f, gradMag)), stepSize)),
          y |-> Add(s.y, Mul(Mul(grad.y, NewtonStep(f, gradMag)), stepSize)),
          iterations |-> s.iterations + 1, done |-> FALSE]

\* the gradient step of findClosestPointImplicit
ImplicitDescend(s, f, grad, gradMag) ==
    IF Lt(gradMag, 1) THEN [s EXCEPT !.done = TRUE, !.iterations = @ + 1]
    ELSE [x |-> Sub(s.x, Mul(Mul(grad.x, NewtonStep(f, gradMag)), stepSize)),
          y |-> Sub(s.y, Mul(Mul(grad.y, NewtonStep(f, gradMag)), stepSize)),
          iterations |-> s.iterations + 1, done |-> FALSE]

\* the body of the for loop once f = equation.evaluate(x, y) is known
ImplicitProbe(equation, s, f) ==
    IF f = Throw \/ Lt(Abs(f), implicitOnCurve * Scale)
    THEN [s EXCEPT !.done = TRUE, !.iterations = @ + 1]
    ELSE ImplicitDescend(s, f, calculateGradient(equation, s.x, s.y),
                         magnitude(calculateGradient(equation, s.x, s.y)))

\* the for loop with `i <= iterations`: one pass too many
ImplicitPassOneMore(equation, s) ==
    IF s.done THEN s
    ELSE IF ~(s.iterations <= implicitIterations) THEN [s EXCEPT !.done = TRUE]
    ELSE ImplicitProbe(equation, s, evaluate2(equation, s.x, s.y))

\* one pass of `for (let i = 0; i < iterations; i++)`
ImplicitPass(equation, s) ==
    IF s.done THEN s
    ELSE IF ~(s.iterations < implicitIterations) THEN [s EXCEPT !.done = TRUE]
    ELSE ImplicitProbe(equation, s, evaluate2(equation, s.x, s.y))

RECURSIVE ImplicitPasses(_, _, _)
RECURSIVE ImplicitRest(_, _, _)
ImplicitPasses(equation, s, k) ==
    IF k = 0 THEN ImplicitPass(equation, s)
    ELSE ImplicitRest(equation, ImplicitPasses(equation, s, k - 1), k)

ImplicitRest(equation, mid, k) ==
    IF mid.done THEN mid ELSE ImplicitPasses(equation, mid, k - 1)

\* the for loop of findClosestPointImplicit, from iteration i on
ImplicitLoop(equation, x, y, i) ==
    ImplicitPasses(equation, [x |-> x, y |-> y, iterations |-> i, done |-> FALSE],
                   Doublings(implicitIterations + 1))

findClosestPointImplicit(pos, equation) == ImplicitLoop(equation, pos.x, pos.y, 0)

\* |fx^2 fyy - 2 fx fy fxy + fy^2 fxx| / (fx^2 + fy^2)^1.5
CurvatureRatio(num, sq) ==
    IF Mul(sq, Sqrt(sq)) = 0 THEN 0 ELSE Div(num, Mul(sq, Sqrt(sq)))

CurvatureOf(fx, fy, fxx, fyy, fxy) ==
    CurvatureRatio(Abs(Add(Sub(Mul(Mul(fx, fx), fyy),
                               Mul(Mul(Mul(2 * Scale, fx), fy), fxy)),
                           Mul(Mul(fy, fy), fxx))),
                   Add(Mul(fx, fx), Mul(fy, fy)))

\* the curvature from the nine probes of the central differences
CurvatureFrom(f00, fp0, fm0, f0p, f0m, fpp, fpm, fmp, fmm) ==
    IF Throw \in {f00, fp0, fm0, f0p, f0m, fpp, fpm, fmp, fmm} THEN 0
    ELSE IF \E v \in {f00, fp0, fm0, f0p, f0m, fpp, fpm, fmp, fmm} : ~isFinite(v) THEN NaN
    ELSE CurvatureOf(RDiv(fp0 - fm0, 2 * derivativeStep),
                     RDiv(f0p - f0m, 2 * derivativeStep),
                     ((fp0 - 2 * f00 + fm0) * Scale) \div (derivativeStep * derivativeStep),
                     ((f0p - 2 * f00 + f0m) * Scale) \div (derivativeStep * derivativeStep),
                     RDiv((fpp - fpm - fmp + fmm) * Scale,
                          4 * derivativeStep * derivativeStep))

calculateImplicitCurvature(equation, x, y) ==
    CurvatureFrom(evaluate2(equation, x, y),
                  evaluate2(equation, Add(x, derivativeStep), y),
                  evaluate2(equation, Sub(x, derivativeStep), y),
                  evaluate2(equation, x, Add(y, derivativeStep)),
                  evaluate2(equation, x, Sub(y, derivativeStep)),
                  evaluate2(equation, Add(x, derivativeStep), Add(y, derivativeStep)),
                  evaluate2(equation, Add(x, derivativeStep), Sub(y, derivativeStep)),
                  evaluate2(equation, Sub(x, derivativeStep), Add(y, derivativeStep)),
                  evaluate2(equation, Sub(x, derivativeStep), Sub(y, derivativeStep)))

\* analyzeImplicit once the closest point and the unit normal are known
ImplicitInfo(pos, equation, closestPoint, normal, iterations) ==
    PathInfo(equation, closestPoint, distanceTo(pos, fromObject(closestPoint)),
             perpendicular(normal), normal,
             calculateImplicitCurvature(equation, closestPoint.x, closestPoint.y),
             iterations, 0)

analyzeImplicitFound(pos, equation, found) ==
    ImplicitInfo(pos, equation, Vector2D(found.x, found.y),
                 normalize(calculateGradient(equation, found.x, found.y)),
                 found.iterations)

analyzeImplicit(pos, equation) ==
    analyzeImplicitFound(pos, equation, findClosestPointImplicit(pos, equation))

-----------------------------------------------------------------------------

(* Polar and parametric curves: a scan over a fixed number of samples *)

scanStep == 50
tangentStep == 10

\* the sample k of a scan that keeps the first sample of least distance:
\* dist < minDistance, starting from minDistance = Infinity
\* (0 when no sample is ever kept); D is the set of <<k, dist>>
FirstMin(D) ==
    LET kept == {p \in D : Lt(p[2], PInf)}
    IN  IF kept = {} THEN <<0, PInf>>
        ELSE LET dists == {p[2] : p \in kept}
                 least == CHOOSE d \in dists : \A e \in dists : d <= e
                 at == {p[1] : p \in {q \in kept : q[2] = least}}
                 first == CHOOSE k \in at : \A j \in at : k <= j
             IN  <<first, least>>

\* the number of passes of `for (t = from; t <= to; t += scanStep)`
ScanCount(from, to) ==
    IF ~isFinite(from) \/ ~isFinite(to) THEN 0
    ELSE IF from > to THEN 0
    ELSE (to - from) \div scanStep + 1

\* (vp - vm) / (2 * tangentStep) of two fine values
Slope(vp, vm) ==
    IF isFinite(Sub(vp, vm)) THEN RDiv(Sub(vp, vm), 2 * tangentStep) ELSE Sub(vp, vm)

\* the path info of a sampled curve: no curvature, no iterations
SampledInfo(equation, closestPoint, distance, tangent, samples) ==
    PathInfo(equation, closestPoint, distance, tangent, perpendicular(tangent), 0, 0, samples)

\* (r cos(theta), r sin(theta)) for a fine value r
polarPoint(r, theta) == Vector2D(Mul(Coarse(r), Cos(theta)), Mul(Coarse(r), Sin(theta)))

\* what the scan compares for the sample at theta, PInf when it is skipped
polarSampleOf(pos, r, theta) ==
    IF ~isFinite(r) THEN PInf ELSE SquaredDistance(pos, polarPoint(r, theta))
polarSample(pos, equation, theta) == polarSampleOf(pos, evaluate(equation, theta), theta)

\* the tangent (dx/dtheta, dy/dtheta), normalized
polarTangent(rc, drdt, cosT, sinT) ==
    normalize(Vector2D(Sub(Mul(drdt, cosT), Mul(rc, sinT)),
                       Add(Mul(drdt, sinT), Mul(rc, cosT))))

\* the second try block of analyzePolar; hit: the scan kept a sample
analyzePolarAt(pos, equation, closestTheta, hit, n, r, rp, rm) ==
    IF r = Throw \/ rp = Throw \/ rm = Throw THEN [NullInfo EXCEPT !.samples = n]
    ELSE SampledInfo(equation, polarPoint(r, closestTheta),
                     IF hit THEN distanceTo(pos, polarPoint(r, closestTheta)) ELSE PInf,
                     polarTangent(Coarse(r), Slope(rp, rm), Cos(closestTheta), Sin(closestTheta)),
                     n)

analyzePolarBest(pos, equation, closestTheta, hit, n) ==
    analyzePolarAt(pos, equation, closestTheta, hit, n,
                   evaluate(equation, closestTheta),
                   evaluate(equation, Add(closestTheta, tangentStep)),
                   evaluate(equation, Sub(closestTheta, tangentStep)))

\* analyzePolar after the scan of the n samples from `from` chose best
analyzePolarScanned(pos, equation, marbleTheta, from, n, best) ==
    analyzePolarBest(pos, equation,
                     IF best[1] = 0 THEN marbleTheta ELSE from + (best[1] - 1) * scanStep,
                     best[1] # 0, n)

analyzePolarScan(pos, equation, marbleTheta, from, n) ==
    analyzePolarScanned(pos, equation, marbleTheta, from, n,
        FirstMin({<<k, polarSample(pos, equation, from + (k - 1) * scanStep)>> : k \in 1..n}))

analyzePolarFrom(pos, equation, marbleTheta) ==
    analyzePolarScan(pos, equation, marbleTheta, Sub(marbleTheta, Pi),
                     ScanCount(Sub(marbleTheta, Pi), Add(marbleTheta, Pi)))

analyzePolar(pos, equation) == analyzePolarFrom(pos, equation, atan2(pos.y, pos.x))

\* what the scan compares for the sample (x, y), PInf when it is skipped
parametricSampleOf(pos, x, y) ==
    IF ~isFinite(x) \/ ~isFinite(y) THEN PInf
    ELSE SquaredDistance(pos, Vector2D(Coarse(x), Coarse(y)))
parametricSample(pos, equation, t) ==
    parametricSampleOf(pos, evaluateX(equation, t), evaluateY(equation, t))

\* the second try block of analyzeParametric; hit: the scan kept a sample
analyzeParametricAt(pos, equation, hit, n, x, y, xp, xm, yp, ym) ==
    IF Throw \in {x, y, xp, xm, yp, ym} THEN [NullInfo EXCEPT !.samples = n]
    ELSE SampledInfo(equation, Vector2D(Coarse(x), Coarse(y)),
                     IF hit THEN distanceTo(pos, Vector2D(Coarse(x), Coarse(y))) ELSE PInf,
                     normalize(Vector2D(Slope(xp, xm), Slope(yp, ym))), n)

analyzeParametricBest(pos, equation, closestT, hit, n) ==
    analyzeParametricAt(pos, equation, hit, n,
                        evaluateX(equation, closestT), evaluateY(equation, closestT),
                        evaluateX(equation, closestT + tangentStep),
                        evaluateX(equation, closestT - tangentStep),
                        evaluateY(equation, closestT + tangentStep),
                        evaluateY(equation, closestT - tangentStep))

analyzeParametricScanned(pos, equation, n, best) ==
    analyzeParametricBest(pos, equation,
                          IF best[1] = 0 THEN 0 ELSE (best[1] - 1) * scanStep,
                          best[1] # 0, n)

analyzeParametric(pos, equation) ==
    analyzeParametricScanned(pos, equation, ScanCount(0, TwoPi),
        FirstMin({<<k, parametricSample(pos, equation, (k - 1) * scanStep)>> :
                    k \in 1..ScanCount(0, TwoPi)}))

-----------------------------------------------------------------------------

(* Nearest path *)

analyzePathAtPoint(marble, equation) ==
    CASE equation.type \in {"explicit_y", "piecewise", "constant_y"} ->
            analyzeExplicitY(marble.position, equation)
      [] equation.type \in {"explicit_x", "constant_x"} ->
            analyzeExplicitX(marble.position, equation)
      [] equation.type = "implicit"   -> analyzeImplicit(marble.position, equation)
      [] equation.type = "polar"      -> analyzePolar(marble.position, equation)
      [] equation.type = "parametric" -> analyzeParametric(marble.position, equation)
      [] OTHER                        -> NullInfo

\* the loop of findNearestPath from curve i on; `analysed` collects the path
\* info of every curve passed so far (NullInfo for a curve that is skipped).
\* NearestPick is the loop body once the info of curve i is known.
RECURSIVE NearestLoop(_, _, _, _, _, _)
RECURSIVE NearestPick(_, _, _, _, _, _, _)
NearestLoop(marble, eqs, i, nearestInfo, minDistance, analysed) ==
    IF i > Len(eqs) THEN [info |-> nearestInfo, analysed |-> analysed]
    ELSE IF eqs[i].type = "inequality"
         THEN NearestLoop(marble, eqs, i + 1, nearestInfo, minDistance,
                          Append(analysed, NullInfo))
    ELSE NearestPick(marble, eqs, i, nearestInfo, minDistance, analysed,
                     analyzePathAtPoint(marble, eqs[i]))

\* the loop body with `info.distance <= minDistance`: the last curve wins a tie
NearestPickLast(marble, eqs, i, nearestInfo, minDistance, analysed, info) ==
    IF info.threw THEN [info |-> ThrowInfo, analysed |-> Append(analysed, info)]
    ELSE IF info.ok /\ Le(info.distance, minDistance)
         THEN NearestLoop(marble, eqs, i + 1, info, info.distance, Append(analysed, info))
         ELSE NearestLoop(marble, eqs, i + 1, nearestInfo, minDistance,
                          Append(analysed, info))

NearestPick(marble, eqs, i, nearestInfo, minDistance, analysed, info) ==
    IF info.threw THEN [info |-> ThrowInfo, analysed |-> Append(analysed, info)]
    ELSE IF info.ok /\ Lt(info.distance, minDistance)
         THEN NearestLoop(marble, eqs, i + 1, info, info.distance, Append(analysed, info))
         ELSE NearestLoop(marble, eqs, i + 1, nearestInfo, minDistance,
                          Append(analysed, info))

findNearestPath(marble, eqs) == NearestLoop(marble, eqs, 1, NullInfo, PInf, <<>>)

-----------------------------------------------------------------------------
(* Marble *)

\* new Marble(x, y, {vx, vy, maxTrailLength}); hasStars tells whether the
\* game gave the marble its `stars` reference at launch
Marble(x, y, vx, vy, maxTrailLength, hasStars) ==
    [position |-> Vector2D(x, y), velocity |-> Vector2D(vx, vy), radius |-> 200,
     onPath |-> FALSE, currentEquation |-> 0, trail |-> <<>>,
     maxTrailLength |-> maxTrailLength, hasStars |-> hasStars]

\* a reset that frees the marble and leaves its equation
Marble_resetKeepsCurve(marble, x, y) ==
    [marble EXCEPT !.position = Vector2D(x, y), !.velocity = Vector2D(100, 0),
                   !.onPath = FALSE, !.trail = <<>>]

\* marble.reset(x, y)
Marble_reset(marble, x, y) ==
    [marble EXCEPT !.position = Vector2D(x, y), !.velocity = Vector2D(100, 0),
                   !.onPath = FALSE, !.currentEquation = 0, !.trail = <<>>]

\* the while loop of updateTrail
RECURSIVE TrailShift(_, _, _)
TrailShift(trail, maxTrailLength, evictions) ==
    IF Len(trail) > maxTrailLength
    THEN TrailShift(Tail(trail), maxTrailLength, evictions + 1)
    ELSE [trail |-> trail, evictions |-> evictions]

\* a trail that, once full, drops the new position instead of the oldest one
updateTrailKeepOldest(marble) ==
    IF Len(marble.trail) >= marble.maxTrailLength
    THEN [trail |-> marble.trail, evictions |-> 1]
    ELSE [trail |-> Append(marble.trail, clone(marble.position)), evictions |-> 0]

updateTrail(marble) ==
    TrailShift(Append(marble.trail, clone(marble.position)), marble.maxTrailLength, 0)

-----------------------------------------------------------------------------
(* Attachment policy and dynamics *)

\* the policy without `pathInfo.distance < 0.1`
shouldAttachToPathNeverNear(marble, pathInfo) ==
    \/ Gt(Abs(dot(marble.velocity, normalize(pathInfo.tangent))),
          Mul(Abs(dot(marble.velocity, normalize(pathInfo.normal))), 500))
    \/ Gt(dot(marble.velocity,
              normalize(Vector2D(Sub(pathInfo.closestPoint.x, marble.position.x),
                                 Sub(pathInfo.closestPoint.y, marble.position.y)))), 0)

\* the policy without the approach test: a marble falling straight onto a
\* path from more than 0.1 away is refused
shouldAttachToPathUnlessFalling(marble, pathInfo) ==
    \/ Gt(Abs(dot(marble.velocity, normalize(pathInfo.tangent))),
          Mul(Abs(dot(marble.velocity, normalize(pathInfo.normal))), 500))
    \/ Lt(pathInfo.distance, 100)

shouldAttachToPath(marble, pathInfo) ==
    \/ Gt(Abs(dot(marble.velocity, normalize(pathInfo.tangent))),
          Mul(Abs(dot(marble.velocity, normalize(pathInfo.normal))), 500))
    \/ Lt(pathInfo.distance, 100)
    \/ Gt(dot(marble.velocity,
              normalize(Vector2D(Sub(pathInfo.closestPoint.x, marble.position.x),
                                 Sub(pathInfo.closestPoint.y, marble.position.y)))), 0)

\* the verdict without the centripetal rule: only a slow marble on a steep
\* slope leaves the path
detachVerdictSteepOnly(slopeAngle, speed, curvature) ==
    Gt(slopeAngle, maxSlopeAngle) /\ Lt(speed, detachThreshold)

\* the verdict of shouldDetachFromPath from the slope angle of the tangent,
\* the marble's speed and `pathInfo.curvature || 0`
detachVerdict(slopeAngle, speed, curvature) ==
    \/ Gt(slopeAngle, maxSlopeAngle) /\ Lt(speed, detachThreshold)
    \/ /\ curvature # 0
       /\ Gt(Mul(Mul(speed, speed), Abs(curvature)),
             Mul(Abs(Mul(gravity, Cos(slopeAngle))), 2 * Scale))

shouldDetachFromPath(marble, pathInfo) ==
    detachVerdict(atan2(Abs(pathInfo.tangent.y), Abs(pathInfo.tangent.x)),
                  magnitude(marble.velocity),
                  IF pathInfo.curvature = NaN THEN 0 ELSE pathInfo.curvature)

\* -Math.sign(tangentSpeed) * rollingFriction * Math.abs(gravity)
frictionForce(tangentSpeed) ==
    Mul(Mul(Neg(Sign(tangentSpeed)), rollingFriction), Abs(gravity))

\* friction applied whatever the speed: the impulse is always added
applyFrictionAlways(tangentSpeed, impulse) == Add(tangentSpeed, impulse)

\* the tangential speed after a friction impulse: slowed, or damped to 0.9
\* of itself when the impulse would reverse it
applyFrictionBy(tangentSpeed, impulse) ==
    IF Lt(Abs(impulse), Abs(tangentSpeed)) THEN Add(tangentSpeed, impulse)
    ELSE Mul(tangentSpeed, 900)

applyFriction(tangentSpeed, dt) ==
    applyFrictionBy(tangentSpeed, Mul(frictionForce(tangentSpeed), dt))

\* the corrective velocity along the normal for a marble distanceFromPath
\* away from its target
correctionBy(distanceFromPath, normalUnit) ==
    IF Gt(distanceFromPath, 10) THEN mul(normalUnit, Mul(Neg(distanceFromPath), 500))
    ELSE Vector2D(0, 0)

correctionForce(position, targetPosition, normalUnit) ==
    correctionBy(distanceTo(position, targetPosition), normalUnit)

\* the velocity along the path for the tangential speed, turned to point
\* right when the tangent points left and the marble is nearly at rest
alongPath(tangentUnit, tangentSpeed) ==
    IF Lt(tangentUnit.x, 0) /\ Lt(Abs(tangentSpeed), 100)
    THEN mul(mul(tangentUnit, -Scale), Abs(tangentSpeed))
    ELSE mul(tangentUnit, tangentSpeed)

\* updateOnPath after the snap, given the unit tangent and normal
updateOnPathAt(marble, position, targetPosition, tangentUnit, normalUnit, dt) ==
    [marble EXCEPT
        !.position = position,
        !.velocity =
            add(alongPath(tangentUnit,
                          applyFriction(Add(dot(marble.velocity, tangentUnit),
                                            Mul(dot(Vector2D(0, gravity), tangentUnit), dt)),
                                        dt)),
                correctionForce(position, targetPosition, normalUnit))]

updateOnPath(marble, pathInfo, dt) ==
    updateOnPathAt(marble,
                   lerp(marble.position,
                        Vector2D(pathInfo.closestPoint.x, pathInfo.closestPoint.y),
                        snapStrength),
                   Vector2D(pathInfo.closestPoint.x, pathInfo.closestPoint.y),
                   normalize(pathInfo.tangent), normalize(pathInfo.normal), dt)

\* the velocity after air drag acted on it for dt
dragBy(velocity, speed, dt) ==
    IF Gt(speed, 0)
    THEN add(velocity, mul(mul(normalize(velocity), Neg(Mul(Mul(airDrag, speed), speed))), dt))
    ELSE velocity

airDragged(velocity, dt) == dragBy(velocity, magnitude(velocity), dt)

\* the air dynamics without gravity
updateInAirWeightless(marble, dt) ==
    [marble EXCEPT !.velocity = airDragged(marble.velocity, dt)]

updateInAir(marble, dt) ==
    [marble EXCEPT
        !.velocity = airDragged(Vector2D(marble.velocity.x,
                                         Add(marble.velocity.y, Mul(gravity, dt))), dt)]

-----------------------------------------------------------------------------
(* Collision and bounds *)

\* the test with `<=`: circles that touch collide
checkCollisionTouching(marble, star) ==
    LET dx == Sub(marble.position.x, star.x)
        dy == Sub(marble.position.y, star.y)
        radiusSum == Add(marble.radius, star.radius)
    IN  Le(SumOfSquares(dx, dy), SumOfSquares(radiusSum, 0))

\* distanceSq < radiusSum * radiusSum, the squares kept exactly
checkCollision(marble, star) ==
    LET dx == Sub(marble.position.x, star.x)
        dy == Sub(marble.position.y, star.y)
        radiusSum == Add(marble.radius, star.radius)
    IN  Lt(SumOfSquares(dx, dy), SumOfSquares(radiusSum, 0))

\* the test with strict comparisons: the edges are outside
checkBoundsInside(marble, bounds) ==
    /\ Gt(marble.position.x, bounds.minX)
    /\ Lt(marble.position.x, bounds.maxX)
    /\ Gt(marble.position.y, bounds.minY)
    /\ Lt(marble.position.y, bounds.maxY)

checkBounds(marble, bounds) ==
    /\ Ge(marble.position.x, bounds.minX)
    /\ Le(marble.position.x, bounds.maxX)
    /\ Ge(marble.position.y, bounds.minY)
    /\ Le(marble.position.y, bounds.maxY)

\* STEP 4 without the `!star.collected` test: every star the marble touches
starsHitAgain(marble, sts) ==
    {k \in 1..Len(sts) : checkCollision(marble, sts[k])}

\* STEP 4 of update: the stars the marble collects now
starsHit(marble, sts) ==
    {k \in 1..Len(sts) : ~sts[k].collected /\ checkCollision(marble, sts[k])}

\* STEP 4 that also shrinks a collected star to nothing
starsAfterShrunk(marble, sts) ==
    [k \in 1..Len(sts) |->
        IF ~sts[k].collected /\ checkCollision(marble, sts[k])
        THEN [sts[k] EXCEPT !.collected = TRUE, !.radius = 0] ELSE sts[k]]

\* the stars list after STEP 4
starsAfter(marble, sts) ==
    [k \in 1..Len(sts) |->
        IF ~sts[k].collected /\ checkCollision(marble, sts[k])
        THEN [sts[k] EXCEPT !.collected = TRUE] ELSE sts[k]]

\* STEP 6 left out: the velocity stays as the dynamics left it
clampVelocityOff(velocity) == velocity

\* STEP 6 of update: the velocity after the minimum-velocity clamp
clampVelocity(velocity) ==
    IF Lt(magnitude(velocity), minVelocity)
    THEN (IF Gt(magnitude(velocity), 0)
          THEN mul(normalize(velocity), minVelocity * 2)
          ELSE Vector2D(10, Mul(gravity, 10)))
    ELSE velocity

-----------------------------------------------------------------------------
(* PhysicsEngine.update *)

NoResult == [starsCollected |-> {}, outOfBounds |-> FALSE, detached |-> FALSE,
             attached |-> FALSE]

\* the attach branch without the `!wasOnPath` test: `attached` on every step
\* spent on a path
detachStepAlwaysAttached(wasOnPath, bound, detach) ==
    [marble |-> IF detach THEN [bound EXCEPT !.onPath = FALSE, !.currentEquation = 0]
                ELSE bound,
     attached |-> TRUE, detached |-> detach,
     branch |-> "attach", shouldAttach |-> "yes",
     shouldDetach |-> IF detach THEN "yes" ELSE "no"]

\* the attach branch after updateOnPath gave `bound` and shouldDetachFromPath
\* gave `detach`
detachStep(wasOnPath, bound, detach) ==
    [marble |-> IF detach THEN [bound EXCEPT !.onPath = FALSE, !.currentEquation = 0]
                ELSE bound,
     attached |-> ~wasOnPath, detached |-> detach,
     branch |-> "attach", shouldAttach |-> "yes",
     shouldDetach |-> IF detach THEN "yes" ELSE "no"]

attachStep(wasOnPath, bound, pathInfo) ==
    detachStep(wasOnPath, bound, shouldDetachFromPath(bound, pathInfo))

\* the two free branches: onPath and currentEquation are cleared, then
\* updateInAir
freeStep(marble, scaledDt, detached, branch, asked) ==
    [marble |-> updateInAir([marble EXCEPT !.onPath = FALSE, !.currentEquation = 0],
                            scaledDt),
     attached |-> FALSE, detached |-> detached,
     branch |-> branch, shouldAttach |-> asked, shouldDetach |-> "unasked"]

\* STEP 2 without the question to shouldAttachToPath: every curve in reach
\* binds the marble
pathStepAlwaysAttach(marble, pathInfo, scaledDt) ==
    IF pathInfo.ok /\ Lt(pathInfo.distance, snapDistance)
    THEN attachStep(marble.onPath,
                    updateOnPath([marble EXCEPT !.onPath = TRUE,
                                         !.currentEquation = pathInfo.equation],
                                 pathInfo, scaledDt),
                    pathInfo)
    ELSE freeStep(marble, scaledDt, marble.onPath, "far", "unasked")

\* STEP 2 of update: the marble after the path state is decided and the
\* dynamics ran, with the events and the verdicts asked on the way
pathStep(marble, pathInfo, scaledDt) ==
    IF pathInfo.ok /\ Lt(pathInfo.distance, snapDistance)
    THEN IF shouldAttachToPath(marble, pathInfo)
         THEN attachStep(marble.onPath,
                         updateOnPath([marble EXCEPT !.onPath = TRUE,
                                              !.currentEquation = pathInfo.equation],
                                      pathInfo, scaledDt),
                         pathInfo)
         ELSE freeStep(marble, scaledDt, FALSE, "refused", "no")
    ELSE freeStep(marble, scaledDt, marble.onPath, "far", "unasked")

\* STEPS 4 to 6 of update for the marble `moved` by STEP 3, and the record of
\* the call: the marble and the stars after it, the result it returns, and
\* what it did on the way
updateMoved(marble, dt, sts, nearest, decided, moved) ==
    [threw |-> FALSE,
     marble |-> [moved EXCEPT !.trail = updateTrail(moved).trail,
                              !.velocity = clampVelocity(moved.velocity)],
     stars |-> starsAfter(moved, sts),
     result |-> [starsCollected |-> starsHit(moved, sts), outOfBounds |-> FALSE,
                 detached |-> decided.detached, attached |-> decided.attached],
     wasOnPath |-> marble.onPath, before |-> marble, dt |-> dt,
     pathInfo |-> nearest.info, analysed |-> nearest.analysed,
     branch |-> decided.branch, shouldAttach |-> decided.shouldAttach,
     shouldDetach |-> decided.shouldDetach,
     evictions |-> updateTrail(moved).evictions, pushes |-> <<clone(moved.position)>>]

\* STEP 3 of update: position += velocity * scaledDt
updateDecided(marble, dt, sts, nearest, decided) ==
    updateMoved(marble, dt, sts, nearest, decided,
                [decided.marble EXCEPT
                    !.position = add(decided.marble.position,
                                     mul(decided.marble.velocity, Mul(dt, timeScale)))])

\* update once findNearestPath returned; an exception leaving it would leave
\* update before anything is written
updateNear(marble, dt, sts, nearest) ==
    IF nearest.info.threw
    THEN [threw |-> TRUE, marble |-> marble, stars |-> sts, result |-> NoResult,
          wasOnPath |-> marble.onPath, before |-> marble, dt |-> dt,
          pathInfo |-> nearest.info, analysed |-> nearest.analysed,
          branch |-> "threw", shouldAttach |-> "unasked", shouldDetach |-> "unasked",
          evictions |-> 0, pushes |-> <<>>]
    ELSE updateDecided(marble, dt, sts, nearest,
                       pathStep(marble, nearest.info, Mul(dt, timeScale)))

\* update(marble, dt, equations, stars)
update(marble, dt, eqs, sts) == updateNear(marble, dt, sts, findNearestPath(marble, eqs))

-----------------------------------------------------------------------------
(* Marble.update: the legacy entry point *)

\* the second push of Marble.update and its single shift, after update
\* returned r
legacyPush(marble, sts, r) ==
    IF r.threw THEN [r EXCEPT !.stars = sts]
    ELSE [r EXCEPT
             !.marble.trail =
                 IF Len(r.marble.trail) + 1 > marble.maxTrailLength
                 THEN Tail(Append(r.marble.trail, clone(r.marble.position)))
                 ELSE Append(r.marble.trail, clone(r.marble.position)),
             !.stars = IF marble.hasStars THEN r.stars ELSE sts,
             !.pushes = Append(r.pushes, clone(r.marble.position))]

\* Marble.update(physics, equations): update with dt = 1 and `this.stars || []`
legacyUpdate(marble, eqs, sts) ==
    legacyPush(marble, sts, update(marble, Scale, eqs, IF marble.hasStars THEN sts ELSE <<>>))

-----------------------------------------------------------------------------

(* The driver's constants (Game) *)

xMin == -10000
xMax == 10000
yMin == -10000
yMax == 10000

\* the rectangle Game.update hands to checkBounds
worldBounds ==
    [minX |-> xMin - 2 * Scale, maxX |-> xMax + 2 * Scale,
     minY |-> yMin - 5 * Scale, maxY |-> yMax + 2 * Scale]

Star(x, y, radius) == [x |-> x, y |-> y, radius |-> radius, collected |-> FALSE]

-----------------------------------------------------------------------------
(* Bounds of the model and the situations it starts from *)

MaxSteps == 4
MaxTrail == 2

Inequality(id) == Curve(id, "inequality", "plane", 1000, -1000, 0, 0)
LineY(id, a, b) == Curve(id, "explicit_y", "linear", a, b, 0, 0)
ConstantY(id, b) == Curve(id, "constant_y", "const", 0, b, 0, 0)
ConstantX(id, b) == Curve(id, "constant_x", "const", 0, b, 0, 0)
Parabola(id, a) == Curve(id, "explicit_y", "square", a, 0, 0, 0)
HalfLine(id, a, b, c) == Curve(id, "piecewise", "halfline", a, b, c, 0)
Circle(id, r) == Curve(id, "implicit", "circle", r, 0, 0, 0)
PolarCircle(id, r) == Curve(id, "polar", "const", 0, r, 0, 0)
Segment(id, a, b, c, d) == Curve(id, "parametric", "segment", a, b, c, d)
Failing(id, type, fn) == Curve(id, type, fn, 0, 0, 0, 0)

\* [equations, marbles, stars] of each starting situation
Scenarios ==
    { \* a marble dropped next to the line y = x, with a region listed first
      [equations |-> <<Inequality(1), LineY(2, 1000, 0)>>,
       marbles |-> <<Marble(0, 300, 500, 0, MaxTrail, TRUE)>>,
       stars |-> <<Star(150, 150, 300), Star(5000, 5000, 250)>>],
      \* a slow marble on the steep line y = 3x
      [equations |-> <<LineY(1, 3000, 0)>>,
       marbles |-> <<Marble(0, 50, 100, 0, MaxTrail, FALSE)>>,
       stars |-> <<Star(-2000, 4000, 300)>>],
      \* a marble rising away from y = 2, given twice, and x = 5 far away
      [equations |-> <<ConstantY(1, 2000), LineY(2, 0, 2000), ConstantX(3, 5000)>>,
       marbles |-> <<Marble(0, 2300, 0, 1000, MaxTrail, FALSE)>>,
       stars |-> <<>>],
      \* a fast marble running off the end of y = 0 {x >= 0}
      [equations |-> <<HalfLine(1, 0, 0, 0)>>,
       marbles |-> <<Marble(300, 0, -60000, 0, MaxTrail, TRUE)>>,
       stars |-> <<Star(-500, 0, 300)>>],
      \* a marble just outside the circle x^2 + y^2 = 4
      [equations |-> <<Circle(1, 2000)>>,
       marbles |-> <<Marble(2100, 0, 100, 0, MaxTrail, FALSE)>>,
       stars |-> <<>>],
      \* the same circle in polar form, r = 2
      [equations |-> <<PolarCircle(1, 2000)>>,
       marbles |-> <<Marble(2100, 100, 100, 0, MaxTrail, FALSE)>>,
       stars |-> <<>>],
      \* the parametric segment x = t, y = t / 2
      [equations |-> <<Segment(1, 1000, 0, 500, 0)>>,
       marbles |-> <<Marble(2000, 1200, 100, 0, MaxTrail, FALSE)>>,
       stars |-> <<>>],
      \* curves whose evaluators fail everywhere, and a curve of unknown kind
      [equations |-> <<Failing(1, "custom", "linear"), Failing(2, "explicit_y", "raise"),
                       Failing(3, "explicit_x", "undefined"), Failing(4, "polar", "raise"),
                       Failing(5, "parametric", "raise"), Failing(6, "explicit_y", "infinite")>>,
       marbles |-> <<Marble(200, 100, 100, 0, MaxTrail, FALSE)>>,
       stars |-> <<>>],
      \* an implicit curve whose evaluator raises
      [equations |-> <<Failing(1, "polar", "undefined"), Failing(2, "implicit", "raise")>>,
       marbles |-> <<Marble(200, 100, 100, 0, MaxTrail, FALSE)>>,
       stars |-> <<>>],
      \* an implicit curve whose evaluator is NaN everywhere, as the parser's
      \* evaluators are where the expression cannot be computed
      [equations |-> <<Failing(1, "implicit", "undefined")>>,
       marbles |-> <<Marble(200, 100, 100, 0, MaxTrail, FALSE)>>,
       stars |-> <<>>],
      \* a marble at rest on the line y = 2
      [equations |-> <<ConstantY(1, 2000)>>,
       marbles |-> <<Marble(0, 2000, 0, 0, MaxTrail, FALSE)>>,
       stars |-> <<>>],
      \* a marble that touches one star, overlaps the next by a hair and
      \* is a hair short of the third
      [equations |-> <<>>,
       marbles |-> <<Marble(300, 400, 500, 0, MaxTrail, TRUE)>>,
       stars |-> <<Star(0, 0, 300), Star(600, 800, 301), Star(300, 900, 299)>>],
      \* a marble inside the parabola y = 2x^2, close to its right arm
      [equations |-> <<Parabola(1, 2000)>>,
       marbles |-> <<Marble(1000, 3000, 100, 0, MaxTrail, FALSE)>>,
       stars |-> <<>>],
      \* a marble at the centre of the circle x^2 + y^2 = 4, where the
      \* gradient vanishes
      [equations |-> <<Circle(1, 2000)>>,
       marbles |-> <<Marble(0, 0, 100, 0, MaxTrail, FALSE)>>,
       stars |-> <<>>],
      \* a marble falling straight onto the line y = 2 from 0.3 above it
      [equations |-> <<ConstantY(1, 2000)>>,
       marbles |-> <<Marble(0, 2300, 0, -1000, MaxTrail, FALSE)>>,
       stars |-> <<>>],
      \* a marble whose position is not finite
      [equations |-> <<LineY(1, 1000, 0), ConstantX(2, 1000), Circle(3, 2000),
                       PolarCircle(4, 2000), Segment(5, 1000, 0, 500, 0)>>,
       marbles |-> <<Marble(NaN, PInf, 100, 0, MaxTrail, FALSE)>>,
       stars |-> <<Star(0, 0, 300)>>],
      \* a marble about to leave the world through its lower edge
      [equations |-> <<>>,
       marbles |-> <<Marble(0, -14999, 500, 0, MaxTrail + 1, TRUE)>>,
       stars |-> <<Star(3000, 3000, 300)>>],
      \* a slow marble under the line y = 2
      [equations |-> <<ConstantY(1, 2000)>>,
       marbles |-> <<Marble(0, 1800, 10, 0, MaxTrail, FALSE)>>,
       stars |-> <<>>],
      \* two marbles of one launch over the same star
      [equations |-> <<>>,
       marbles |-> <<Marble(-8000, 8000, 500, 0, MaxTrail, TRUE),
                     Marble(-8000, 7500, 500, 0, MaxTrail, TRUE)>>,
       stars |-> <<Star(-7900, 7750, 300), Star(0, 0, 300)>>] }

Init ==
    \E s \in Scenarios :
        /\ equations = s.equations
        /\ stars = s.stars
        /\ marbles = s.marbles
        /\ starsCollected = 0
        /\ gameRunning = FALSE
        /\ level = 1
        /\ start = s
        /\ last = [op |-> "init", i |-> 0, calls |-> <<>>]
        /\ pushed = [i \in 1..Len(s.marbles) |-> <<>>]
        /\ reported = [k \in 1..Len(s.stars) |-> 0]
        /\ steps = 0

\* the effect of one engine call r made for marble i
Apply(op, i, r) ==
    /\ marbles' = [marbles EXCEPT ![i] = r.marble]
    /\ stars' = r.stars
    /\ last' = [op |-> op, i |-> i, calls |-> <<r>>]
    /\ pushed' = [pushed EXCEPT ![i] = @ \o r.pushes]
    /\ reported' = [k \in 1..Len(stars) |->
                       reported[k] + IF k \in r.result.starsCollected THEN 1 ELSE 0]
    /\ steps' = steps + 1
    /\ UNCHANGED <<equations, starsCollected, gameRunning, level, start>>

\* physics.update(marble, dt, equations, stars), called by a driver for one
\* of the marbles, with a time step of 0 or 1
Update ==
    /\ steps < MaxSteps
    /\ \E i \in 1..Len(marbles), dt \in {0, Scale} :
           Apply("update", i, update(marbles[i], dt, equations, stars))

\* marble.update(physics, equations) for one of the marbles
MarbleUpdate ==
    /\ steps < MaxSteps
    /\ \E i \in 1..Len(marbles) :
           Apply("legacy", i, legacyUpdate(marbles[i], equations, stars))

\* marble.reset(x, y) for one of the marbles, back to where it started
MarbleReset ==
    /\ steps < MaxSteps
    /\ \E i \in 1..Len(marbles) :
           /\ marbles' = [marbles EXCEPT ![i] =
                              Marble_reset(@, start.marbles[i].position.x,
                                           start.marbles[i].position.y)]
           /\ last' = [op |-> "marbleReset", i |-> i, calls |-> <<>>,
                       before |-> marbles[i]]
           /\ pushed' = [pushed EXCEPT ![i] = <<>>]
           /\ steps' = steps + 1
    /\ UNCHANGED <<equations, stars, starsCollected, gameRunning, level, start, reported>>

Next == Update \/ MarbleUpdate \/ MarbleReset

Spec == Init /\ [][Next]_vars

-----------------------------------------------------------------------------
(* Game.update, and a launched game left to run *)

MaxRun == 150

\* the game as Game.update sees it, with the calls it made so far
GameOf(eqs, ms, sts, count, running, lvl) ==
    [equations |-> eqs, marbles |-> ms, stars |-> sts, starsCollected |-> count,
     gameRunning |-> running, level |-> lvl, marblesInBounds |-> FALSE, calls |-> <<>>]

\* the game as it is now
TheGame == GameOf(equations, marbles, stars, starsCollected, gameRunning, level)

\* the body of the forEach without the count of the stars collected
tickMarbleUncounted(g, i, r) ==
    [g EXCEPT
        !.marbles[i] = r.marble,
        !.stars = r.stars,
        !.marblesInBounds = @ \/ checkBounds(r.marble, worldBounds),
        !.calls = Append(@, r)]

\* the body of the forEach for marble i, once physics.update returned r
tickMarble(g, i, r) ==
    [g EXCEPT
        !.marbles[i] = r.marble,
        !.stars = r.stars,
        !.starsCollected = @ + Cardinality(r.result.starsCollected),
        !.gameRunning =
            IF /\ Cardinality(r.result.starsCollected) > 0
               /\ g.starsCollected + Cardinality(r.result.starsCollected) = Len(g.stars)
            THEN FALSE ELSE @,
        !.marblesInBounds = @ \/ checkBounds(r.marble, worldBounds),
        !.calls = Append(@, r)]

\* the end of Game.update without the failure branch: the game stops and the
\* stars stay as they are
tickEndKeepsStars(g) ==
    IF ~g.marblesInBounds /\ Len(g.marbles) > 0
    THEN [g EXCEPT !.gameRunning = FALSE]
    ELSE g

\* the end of Game.update: the game stops when no marble is left in bounds,
\* and a failed attempt gives the stars back
tickEnd(g) ==
    IF ~g.marblesInBounds /\ Len(g.marbles) > 0
    THEN IF g.starsCollected < Len(g.stars)
         THEN [g EXCEPT !.gameRunning = FALSE,
                        !.stars = [k \in 1..Len(g.stars) |->
                                      [g.stars[k] EXCEPT !.collected = FALSE]],
                        !.starsCollected = 0]
         ELSE [g EXCEPT !.gameRunning = FALSE]
    ELSE g

\* this.marbles.forEach(...) from marble i on
RECURSIVE tickFrom(_, _)
tickFrom(g, i) ==
    IF i > Len(g.marbles) THEN g
    ELSE tickFrom(tickMarble(g, i, update(g.marbles[i], Scale, g.equations, g.stars)),
                  i + 1)

\* Game.update()
Game_update(g) == tickEnd(tickFrom(g, 1))

\* the effect of a handler of the game that left it as g
ApplyGame(op, g) ==
    /\ equations' = g.equations
    /\ marbles' = g.marbles
    /\ stars' = g.stars
    /\ starsCollected' = g.starsCollected
    /\ gameRunning' = g.gameRunning
    /\ level' = g.level
    /\ last' = [op |-> op, i |-> 1, calls |-> g.calls]
    /\ pushed' = [i \in 1..Len(g.marbles) |->
                     IF i <= Len(g.calls) THEN pushed[i] \o g.calls[i].pushes ELSE <<>>]
    /\ reported' = [k \in 1..Len(g.stars) |->
                       IF g.level # level THEN 0
                       ELSE reported[k]
                            + Cardinality({c \in 1..Len(g.calls) :
                                              k \in g.calls[c].result.starsCollected})]
    /\ steps' = steps + 1
    /\ UNCHANGED start

\* one frame of the draw loop: `if (this.gameRunning) this.update()`
Draw ==
    /\ gameRunning
    /\ steps < MaxRun
    /\ ApplyGame("draw", Game_update(TheGame))

\* the marble launchMarbles creates at (x, y)
Launched(x, y) == Marble(x, y, 500, 0, MaxTrail, TRUE)

\* the games left to run: the line y = x with a marble launched at (-5, 5)
\* and a target at the origin; the line y = 2 with a marble at rest on it;
\* a marble dropped on the right edge of the world, and one dropped just
\* beyond it; marbles that collect stars and then leave the world
Runs ==
    { [equations |-> <<LineY(1, 1000, 0)>>,
       marbles |-> <<Launched(-5000, 5000)>>,
       stars |-> <<Star(0, 0, 300)>>],
      [equations |-> <<ConstantY(1, 2000)>>,
       marbles |-> <<Marble(0, 2000, 0, 0, MaxTrail, FALSE)>>,
       stars |-> <<>>],
      [equations |-> <<>>,
       marbles |-> <<Marble(xMax + 2 * Scale, 0, 0, 0, MaxTrail, TRUE)>>,
       stars |-> <<Star(0, 0, 300)>>],
      [equations |-> <<>>,
       marbles |-> <<Marble(xMax + 2 * Scale + 1, 0, 0, 0, MaxTrail, TRUE)>>,
       stars |-> <<Star(0, 0, 300)>>],
      \* a marble that leaves through the right edge over a star, another
      \* star being out of reach
      [equations |-> <<>>,
       marbles |-> <<Launched(xMax + 2 * Scale - 5, 0)>>,
       stars |-> <<Star(xMax + 2 * Scale, 0, 300), Star(0, 0, 300)>>],
      \* the same with that star as the only one
      [equations |-> <<>>,
       marbles |-> <<Launched(xMax + 2 * Scale - 5, 0)>>,
       stars |-> <<Star(xMax + 2 * Scale, 0, 300)>>],
      \* three marbles of one launch falling past two stars, a third star
      \* being out of reach
      [equations |-> <<>>,
       marbles |-> <<Launched(0, 300), Launched(0, -200), Launched(0, -700)>>,
       stars |-> <<Star(150, 150, 300), Star(0, -2000, 300), Star(5000, 5000, 250)>>] }

InitRun ==
    \E s \in Runs :
        /\ equations = s.equations
        /\ stars = s.stars
        /\ marbles = s.marbles
        /\ starsCollected = 0
        /\ gameRunning = TRUE
        /\ level = 1
        /\ start = s
        /\ last = [op |-> "init", i |-> 0, calls |-> <<>>]
        /\ pushed = [i \in 1..Len(s.marbles) |-> <<>>]
        /\ reported = [k \in 1..Len(s.stars) |-> 0]
        /\ steps = 0

NextRun == Draw

SpecRun == InitRun /\ [][NextRun]_vars

-----------------------------------------------------------------------------
(* The handlers of the game's buttons, and a game played for a few moves *)

MaxMoves == 4
MaxEquations == 4

\* launchMarbles() without the cap of three marbles
Game_launchMarblesAll(g, startPos) ==
    IF Len(g.equations) = 0 THEN g
    ELSE [g EXCEPT
             !.marbles = [i \in 1..Len(g.equations) |->
                             Launched(startPos.x, startPos.y - (i - 1) * 500)],
             !.gameRunning = TRUE]

\* launchMarbles(), the UI giving the start position
Game_launchMarbles(g, startPos) ==
    IF Len(g.equations) = 0 THEN g
    ELSE [g EXCEPT
             !.marbles = [i \in 1..MinI(Len(g.equations), 3) |->
                             Launched(startPos.x, startPos.y - (i - 1) * 500)],
             !.gameRunning = TRUE]

\* reset()
Game_reset(g) ==
    [g EXCEPT !.gameRunning = FALSE,
              !.marbles = <<>>,
              !.stars = [k \in 1..Len(g.stars) |-> [g.stars[k] EXCEPT !.collected = FALSE]],
              !.starsCollected = 0]

\* generateLevel(), the random pattern giving the stars sts
Game_generateLevel(g, sts) == [g EXCEPT !.stars = sts, !.starsCollected = 0]

\* generateNewLevel()
Game_generateNewLevel(g, sts) ==
    [Game_reset(Game_generateLevel([g EXCEPT !.level = @ + 1], sts))
        EXCEPT !.equations = <<>>]

\* addEquation(equationString), the parser giving the curve
Game_addEquation(g, equation) == [g EXCEPT !.equations = Append(@, equation)]

\* the start positions the UI hands over, the default (-8, 8) among them
StartPositions == {Vector2D(-8000, 8000), Vector2D(0, 300)}

\* the stars of a level
Levels ==
    { <<Star(150, 150, 300), Star(5000, 5000, 250)>>,
      <<Star(-7900, 7750, 300), Star(0, -200, 400)>> }

\* the curves the player enters, as the n-th equation
Entered(n) == {LineY(n, 1000, 0), ConstantY(n, -200)}

\* the equations the player has entered when the model takes over
EnteredBefore ==
    { <<>>, <<LineY(1, 1000, 0)>>,
      <<LineY(1, 1000, 0), ConstantY(2, -200), LineY(3, -1000, 0), ConstantY(4, 7000)>> }

InitGame ==
    \E sts \in Levels, eqs \in EnteredBefore :
        /\ equations = eqs
        /\ stars = sts
        /\ marbles = <<>>
        /\ starsCollected = 0
        /\ gameRunning = FALSE
        /\ level = 1
        /\ start = [equations |-> eqs, marbles |-> <<>>, stars |-> sts]
        /\ last = [op |-> "init", i |-> 0, calls |-> <<>>]
        /\ pushed = <<>>
        /\ reported = [k \in 1..Len(sts) |-> 0]
        /\ steps = 0

AddEquation ==
    /\ steps < MaxMoves
    /\ Len(equations) < MaxEquations
    /\ \E equation \in Entered(Len(equations) + 1) :
           ApplyGame("add", Game_addEquation(TheGame, equation))

LaunchMarbles ==
    /\ steps < MaxMoves
    /\ \E startPos \in StartPositions :
           ApplyGame("launch", Game_launchMarbles(TheGame, startPos))

Reset ==
    /\ steps < MaxMoves
    /\ ApplyGame("reset", Game_reset(TheGame))

GenerateNewLevel ==
    /\ steps < MaxMoves
    /\ \E sts \in Levels :
           ApplyGame("newLevel", Game_generateNewLevel(TheGame, sts))

\* a frame of the draw loop during play
Frame ==
    /\ steps < MaxMoves
    /\ gameRunning
    /\ ApplyGame("draw", Game_update(TheGame))

NextGame == AddEquation \/ LaunchMarbles \/ Reset \/ GenerateNewLevel \/ Frame

SpecGame == InitGame /\ [][NextGame]_vars

-----------------------------------------------------------------------------
(* Properties of PhysicsEngine.update, stated over the call the last step   *)
(* made: `before` is the marble it was given, `pathInfo` what               *)
(* findNearestPath returned, `analysed` what each curve's analysis gave.    *)

Called == last.op \notin {"init", "marbleReset"}
TheCall == last.calls[1]
TheMarble == marbles[last.i]

\* `pathInfo && pathInfo.distance < this.snapDistance`
withinSnap(c) == c.pathInfo.ok /\ Lt(c.pathInfo.distance, snapDistance)

\* the attach branch was taken: the curve is in reach and shouldAttachToPath
\* said yes for the marble as it came in
attachTaken(c) == withinSnap(c) /\ shouldAttachToPath(c.before, c.pathInfo)

\* the marble shouldDetachFromPath is asked about: bound, after updateOnPath
boundMarble(c) ==
    updateOnPath([c.before EXCEPT !.onPath = TRUE, !.currentEquation = c.pathInfo.equation],
                 c.pathInfo, Mul(c.dt, timeScale))

\* the attach branch was taken and shouldDetachFromPath then said yes
detachAsked(c) == attachTaken(c) /\ shouldDetachFromPath(boundMarble(c), c.pathInfo)

\* C1: after update returns the marble is Bound (onPath = true) exactly when
\* a nearest path info existed with distance < snapDistance, shouldAttachToPath
\* said yes for it and shouldDetachFromPath, asked after the bound dynamics,
\* said no; in every other case the marble is Free.
C1_BoundIffAttachedAndKept ==
    Called => (TheMarble.onPath <=> (attachTaken(TheCall) /\ ~detachAsked(TheCall)))

\* a Free marble that the call left Bound
C1_BecameBound ==
    Called /\ ~TheCall.before.onPath /\ TheMarble.onPath /\ attachTaken(TheCall)

\* C2: inside update a star's collected flag only goes from false to true; a
\* star that is collected is never reset and never reported again, so over any
\* sequence of calls, for one marble or several sharing the stars, each star
\* is in some result.starsCollected at most once.
C2_StarsCollectedOnce ==
    /\ [](\A k \in 1..Len(stars) : reported[k] <= 1)
    /\ [][\A k \in 1..Len(stars) :
            /\ stars[k].collected => stars'[k].collected
            /\ (last'.calls # <<>> /\ k \in last'.calls[1].result.starsCollected)
                   => ~stars[k].collected /\ stars'[k].collected]_vars

\* a call whose marble touches a star collected earlier, and does not report it
C2_TouchedCollectedStar ==
    /\ Called
    /\ \E k \in 1..Len(stars) :
           /\ stars[k].collected /\ reported[k] = 1
           /\ k \notin TheCall.result.starsCollected
           /\ checkCollision(TheMarble, stars[k])
           /\ TheMarble.hasStars

\* the curve's evaluator fails at every input, or the curve is of no known kind
evaluatorFails(equation) ==
    \/ equation.fn \in {"undefined", "infinite", "raise"}
    \/ equation.type \notin {"explicit_y", "piecewise", "constant_y", "explicit_x",
                             "constant_x", "implicit", "polar", "parametric", "inequality"}

\* C3: update never throws once started: for curves whose evaluators return
\* NaN or Infinity or raise, of every kind and of an unknown kind, the call
\* returns a result and the failure is absorbed as no path info: the marble is
\* Free.
C3_FailuresAbsorbedAsFree ==
    Called =>
        /\ ~TheCall.threw
        /\ (\A j \in 1..Len(equations) : evaluatorFails(equations[j]))
               => ~TheCall.pathInfo.ok /\ ~TheMarble.onPath

\* C4: the result of a step reports the marble's bounds status: its
\* out-of-bounds field tells whether the position after the step lies outside
\* the world-bounds rectangle.
C4_ResultReportsBounds ==
    Called => (TheCall.result.outOfBounds <=> ~checkBounds(TheMarble, worldBounds))

\* C5: a step with dt = 0 is a no-op on placement and attachment: the
\* position after the call is the position before it, and onPath and
\* currentEquation are unchanged.
C5_ZeroStepIsNoOp ==
    (last.op = "update" /\ TheCall.dt = 0) =>
        /\ TheMarble.position = TheCall.before.position
        /\ TheMarble.onPath = TheCall.before.onPath
        /\ TheMarble.currentEquation = TheCall.before.currentEquation

\* C6: result.detached is true exactly when (a) the attach branch was taken
\* and shouldDetachFromPath then said yes, or (b) no curve was within
\* snapDistance and the marble was Bound before the step; result.attached is
\* true exactly when the marble was Free before the step and the attach branch
\* was taken.
C6_EventsFollowRule ==
    Called =>
        /\ TheCall.result.detached <=>
               (detachAsked(TheCall) \/ (~withinSnap(TheCall) /\ TheCall.before.onPath))
        /\ TheCall.result.attached <=> (~TheCall.before.onPath /\ attachTaken(TheCall))

\* a Bound marble with no curve in reach: the call reports detached
C6_LeftThePath ==
    /\ Called /\ TheCall.before.onPath /\ ~withinSnap(TheCall)
    /\ TheCall.result.detached /\ ~TheCall.result.attached

\* the curves whose analysis gave an info with a finite distance
candidates(c) ==
    {j \in 1..Len(c.analysed) : c.analysed[j].ok /\ isFinite(c.analysed[j].distance)}

\* C7: findNearestPath returns the path info of least distance among the
\* curves whose type is not 'inequality', the earliest in list order on a tie,
\* and null when no such curve gives an info with a finite distance; an
\* inequality is never analysed and never selected, and no marble is bound to
\* one.
C7_NearestIsFirstMinimum ==
    Called =>
        /\ Len(TheCall.analysed) = Len(equations)
        /\ \A j \in 1..Len(equations) :
               TheCall.analysed[j] =
                   IF equations[j].type = "inequality" THEN NullInfo
                   ELSE analyzePathAtPoint(TheCall.before, equations[j])
        /\ IF candidates(TheCall) = {} THEN ~TheCall.pathInfo.ok
           ELSE \E m \in candidates(TheCall) :
                    /\ TheCall.pathInfo = TheCall.analysed[m]
                    /\ \A j \in candidates(TheCall) :
                           /\ TheCall.analysed[m].distance <= TheCall.analysed[j].distance
                           /\ TheCall.analysed[m].distance = TheCall.analysed[j].distance
                                  => m <= j
        /\ TheMarble.onPath =>
               \E j \in 1..Len(equations) :
                   /\ equations[j].id = TheMarble.currentEquation
                   /\ equations[j].type # "inequality"

\* two curves at the same finite distance: the earlier one is returned
C7_TieGoesToEarlier ==
    /\ Called
    /\ \E m, j \in candidates(TheCall) :
           /\ m < j
           /\ TheCall.analysed[m].distance = TheCall.analysed[j].distance
           /\ TheCall.pathInfo = TheCall.analysed[m]
           /\ TheCall.pathInfo # TheCall.analysed[j]

\* C8: the trail is a bounded FIFO: after any sequence of update and
\* Marble.update calls its length is at most maxTrailLength, its entries are
\* the latest positions pushed, in the order they were pushed (the oldest
\* evicted first), and right after an update its last entry is the marble's
\* current position.
C8_TrailIsBoundedFifo ==
    \A i \in 1..Len(marbles) :
        /\ Len(marbles[i].trail) <= marbles[i].maxTrailLength
        /\ Len(marbles[i].trail) = MinI(Len(pushed[i]), marbles[i].maxTrailLength)
        /\ \A j \in 1..Len(marbles[i].trail) :
               marbles[i].trail[j] =
                   pushed[i][Len(pushed[i]) - Len(marbles[i].trail) + j]
        /\ (last.op = "update" /\ last.i = i) =>
               /\ marbles[i].trail # <<>>
               /\ marbles[i].trail[Len(marbles[i].trail)] = marbles[i].position

\* an update that had to evict from a full trail
C8_EvictedFromFullTrail ==
    /\ last.op = "update"
    /\ TheCall.evictions > 0
    /\ Len(pushed[last.i]) > TheMarble.maxTrailLength
    /\ Len(TheMarble.trail) = TheMarble.maxTrailLength

\* the number of samples of a full scan
scanSamples == ScanCount(0, TwoPi)

\* C9: every call of update terminates: a golden-section search runs at most
\* 50 iterations, the implicit descent at most 20, the polar and parametric
\* scans a fixed number of samples, and the trail eviction ends, for every
\* marble position, non-finite ones included.
C9_SearchesAreCapped ==
    Called =>
        /\ \A j \in 1..Len(TheCall.analysed) :
               /\ TheCall.analysed[j].samples <= scanSamples
               /\ TheCall.analysed[j].iterations <=
                      IF equations[j].type = "implicit" THEN implicitIterations
                      ELSE goldenCap
               /\ equations[j].type \in {"polar", "parametric"}
                      => TheCall.analysed[j].iterations = 0
        /\ TheCall.evictions <= Len(TheCall.before.trail) + 1

\* a descent that used all its iterations, from a position that is not finite
C9_DescentFromNowhere ==
    /\ Called
    /\ ~isFiniteVec(TheCall.before.position)
    /\ \E j \in 1..Len(TheCall.analysed) :
           equations[j].type = "implicit"
               /\ TheCall.analysed[j].iterations = implicitIterations

\* C10: update never changes the curves list or a curve, and of each star it
\* changes nothing but the collected flag.
C10_CurvesAndStarsFramed ==
    [][/\ equations' = equations
       /\ Len(stars') = Len(stars)
       /\ \A k \in 1..Len(stars) :
              stars'[k] = [stars[k] EXCEPT !.collected = stars'[k].collected]]_vars

\* a call that collected a star in reach of a curve
C10_CollectedOnAPath ==
    Called /\ TheCall.result.starsCollected # {} /\ TheCall.pathInfo.ok

\* the run began with the marble at rest at (0, 2) on the constant curve y = 2
atRestOnLine ==
    /\ start.equations = <<ConstantY(1, 2000)>>
    /\ start.marbles = <<Marble(0, 2000, 0, 0, MaxTrail, FALSE)>>

\* C11: for the constant curve y = 2 with gravity < 0, a marble placed at
\* (0, 2) with zero velocity is Bound after the first step and after every
\* later step, and the tangent of the path info is (1, 0) or (-1, 0) in each
\* of those steps.
C11_StaysBoundOnConstantLine ==
    (atRestOnLine /\ Called) =>
        /\ gravity < 0
        /\ TheMarble.onPath /\ TheMarble.currentEquation = 1
        /\ TheCall.pathInfo.ok
        /\ TheCall.pathInfo.tangent \in {Vector2D(Scale, 0), Vector2D(-Scale, 0)}

\* the marble still Bound on y = 2 after a hundred frames
C11_StillBoundLater ==
    /\ atRestOnLine /\ steps >= 100 /\ TheMarble.onPath
    /\ TheMarble.position.x > 0 /\ TheMarble.position.y = 2000

\* the run began with the marble launched at (-5, 5) over the line y = x, with
\* a target of radius 0.3 at the origin
launchedOverDiagonal ==
    /\ start.equations = <<LineY(1, 1000, 0)>>
    /\ start.marbles = <<Launched(-5000, 5000)>>
    /\ start.stars = <<Star(0, 0, 300)>>

\* C12 as stated: in the end-to-end run (curve y = x, gravity -9.8, marble
\* launched at (-5, 5) with velocity (0.5, 0), target at the origin with
\* radius 0.3) the marble is on the line within a few frames, ten at most, and
\* the target is collected as soon as the marble is within the sum of the
\* radii of it.
C12_AttachesWithinAFewSteps ==
    (launchedOverDiagonal /\ Called) =>
        /\ steps >= 10 => TheMarble.onPath
        /\ checkCollision(TheMarble, stars[1]) => stars[1].collected

\* C12, amended: in that run the marble falls Free for 84 frames, attaches to
\* the line in frame 85, left of x = -4, and then stays Bound and slides down
\* the line away from the origin until it leaves the world in frame 145,
\* which stops the game; it never comes within the sum of the radii of the
\* target, and the target is never collected.
C12_FallsThenSlidesAway ==
    (launchedOverDiagonal /\ Called) =>
        /\ gravity = -9800
        /\ steps <= 84 => ~TheMarble.onPath /\ ~TheCall.result.attached
        /\ steps = 85 => TheCall.result.attached
        /\ steps >= 85 => /\ TheMarble.onPath /\ TheMarble.currentEquation = 1
                          /\ TheMarble.velocity.x < 0 /\ TheMarble.velocity.y < 0
        /\ TheMarble.position.x < -4 * Scale
        /\ ~checkCollision(TheMarble, stars[1])
        /\ TheCall.result.starsCollected = {}
        /\ ~stars[1].collected /\ starsCollected = 0
        /\ gameRunning <=> steps < 145
        /\ ~gameRunning => ~checkBounds(TheMarble, worldBounds)

\* the end of that run: the marble on the line, out of the world, the target
\* still there
C12_SlidOutOfTheWorld ==
    /\ launchedOverDiagonal /\ ~gameRunning /\ TheMarble.onPath
    /\ TheMarble.position.x < worldBounds.minX /\ ~stars[1].collected

\* the circles of marble m and star s overlap: the squared distance of their
\* centres is below the square of the sum of their radii, in whole numbers
overlap(m, s) ==
    /\ isFiniteVec(m.position)
    /\ (m.position.x - s.x) * (m.position.x - s.x)
         + (m.position.y - s.y) * (m.position.y - s.y)
       < (m.radius + s.radius) * (m.radius + s.radius)

\* the circles of marble m and star s touch in one point
touch(m, s) ==
    /\ isFiniteVec(m.position)
    /\ (m.position.x - s.x) * (m.position.x - s.x)
         + (m.position.y - s.y) * (m.position.y - s.y)
       = (m.radius + s.radius) * (m.radius + s.radius)

\* C13: checkCollision(marble, star) is true if and only if the squared
\* distance between the marble and the star is strictly less than
\* (marble.radius + star.radius)^2; in particular not when the circles touch.
\* STEP 4 of update shows the verdict: a star is collected by a call only if
\* the circles overlap, and is collected after the call if they do.
C13_CollisionIsStrictOverlap ==
    Called =>
        \A k \in 1..Len(stars) :
            /\ checkCollision(TheCall.marble, TheCall.stars[k])
                   <=> overlap(TheCall.marble, TheCall.stars[k])
            /\ k \in TheCall.result.starsCollected => overlap(TheCall.marble, TheCall.stars[k])
            /\ overlap(TheCall.marble, TheCall.stars[k]) => TheCall.stars[k].collected
            /\ touch(TheCall.marble, TheCall.stars[k]) =>
                   ~checkCollision(TheCall.marble, TheCall.stars[k])

\* a call that left the marble touching a star it did not collect, while
\* collecting another
C13_TouchedWithoutCollecting ==
    /\ Called
    /\ \E k \in 1..Len(stars) :
           touch(TheCall.marble, TheCall.stars[k]) /\ ~TheCall.stars[k].collected
    /\ TheCall.result.starsCollected # {}

\* marble m is in the closed rectangle [xMin-2, xMax+2] x [yMin-5, yMax+2]
inTheWorld(m) ==
    /\ isFiniteVec(m.position)
    /\ xMin - 2 * Scale <= m.position.x /\ m.position.x <= xMax + 2 * Scale
    /\ yMin - 5 * Scale <= m.position.y /\ m.position.y <= yMax + 2 * Scale

\* C14: checkBounds(marble, bounds) is true exactly when minX <= x <= maxX and
\* minY <= y <= maxY, the edges included, and Game.update calls it with the
\* rectangle [xMin-2, xMax+2] x [yMin-5, yMax+2]: after a frame, a marble is
\* reported in bounds exactly when it is in that closed rectangle, and the
\* game runs on if one is (and no star was collected) and stops if none is.
C14_InBoundsIsTheClosedWorld ==
    (Called /\ last.op = "draw") =>
        /\ \A i \in 1..Len(marbles) :
               checkBounds(marbles[i], worldBounds) <=> inTheWorld(marbles[i])
        /\ (\A i \in 1..Len(marbles) : ~inTheWorld(marbles[i])) => ~gameRunning
        /\ (/\ \E i \in 1..Len(marbles) : inTheWorld(marbles[i])
            /\ \A c \in 1..Len(last.calls) : last.calls[c].result.starsCollected = {})
               => gameRunning

\* a frame that left the marble on the right edge of the world, the game
\* still running
C14_OnTheEdge ==
    /\ Called /\ last.op = "draw" /\ gameRunning
    /\ TheMarble.position.x = xMax + 2 * Scale
    /\ TheMarble.position.y < 0

\* a call for a marble at (2.1, 0) next to the circle x^2 + y^2 - 4 = 0
besideTheCircle ==
    /\ Called
    /\ equations = <<Circle(1, 2000)>>
    /\ TheCall.before.position = Vector2D(2100, 0)

\* C15: for the implicit curve x^2 + y^2 - 4 = 0 and a marble at (2.1, 0), the
\* closest point the gradient descent returns after its 20 steps is within
\* 0.05 of (2, 0), and the normal of the path info is parallel to (1, 0).
C15_DescentEndsNearTheCircle ==
    besideTheCircle =>
        /\ TheCall.pathInfo.ok /\ TheCall.pathInfo.iterations = implicitIterations
        /\ (TheCall.pathInfo.closestPoint.x - 2000) * (TheCall.pathInfo.closestPoint.x - 2000)
             + TheCall.pathInfo.closestPoint.y * TheCall.pathInfo.closestPoint.y
           < 50 * 50
        /\ TheCall.pathInfo.normal.y = 0 /\ TheCall.pathInfo.normal.x # 0

\* such a call, whose descent stopped short of the circle
C15_StoppedShortOfTheCircle ==
    /\ besideTheCircle
    /\ TheCall.pathInfo.closestPoint.x > 2000
    /\ TheCall.pathInfo.distance < 100

\* the abscissas pos.x - 3, pos.x - 2.9, ..., pos.x + 3 of the search interval
sampled(pos) == {pos.x - 3 * Scale + 100 * k : k \in 0..60}

\* the distance from pos to the point of the curve above x
distanceToCurveAt(pos, equation, x) ==
    IF isFinite(evaluate(equation, x))
    THEN distanceTo(pos, Vector2D(x, Coarse(evaluate(equation, x))))
    ELSE PInf

\* C16: for every explicit curve y = f(x) and marble position, the closest
\* point analyzeExplicitY reports is on the curve, its x is within 3 of the
\* marble's, and the reported distance is within the tolerance of the least
\* distance to the curve over that interval; the least distance is at most
\* the distance to the curve point above any x of the interval, and ten times
\* the tolerance, 0.01, is granted here.
C16_ReportsTheLeastDistance ==
    Called =>
        \A j \in 1..Len(equations) :
            (/\ equations[j].type = "explicit_y"
             /\ TheCall.analysed[j].ok
             /\ isFiniteVec(TheCall.before.position)) =>
                /\ TheCall.analysed[j].closestPoint.y
                       = Coarse(evaluate(equations[j], TheCall.analysed[j].closestPoint.x))
                /\ TheCall.analysed[j].closestPoint.x >= TheCall.before.position.x - 3 * Scale
                /\ TheCall.analysed[j].closestPoint.x <= TheCall.before.position.x + 3 * Scale
                /\ \A x \in sampled(TheCall.before.position) :
                       Le(TheCall.analysed[j].distance,
                          Add(distanceToCurveAt(TheCall.before.position, equations[j], x),
                              10 * tolerance))

\* v is a unit vector, up to the rounding of the fixed-point grid
isUnit(v) ==
    /\ isFiniteVec(v)
    /\ magnitude(v) >= Scale - 5 /\ magnitude(v) <= Scale + 5

\* C17: every path info the analyzer produces carries a tangent and a normal
\* of length 1; where the geometry is degenerate (the gradient of an implicit
\* function is zero, a tangent vector has length zero) a non-zero default
\* such as the normal (0, 1) takes the place of the zero vector.  Stated for
\* the path infos with a finite distance.
C17_TangentAndNormalAreUnit ==
    Called =>
        \A j \in 1..Len(TheCall.analysed) :
            (TheCall.analysed[j].ok /\ isFinite(TheCall.analysed[j].distance)) =>
                /\ isUnit(TheCall.analysed[j].tangent)
                /\ isUnit(TheCall.analysed[j].normal)

\* C18: marbles exist only between a launch and the next reset or new level.
\* launchMarbles with at least one equation replaces the marble list with
\* min(number of equations, 3) fresh marbles and sets gameRunning; with no
\* equation it changes neither; reset and generateNewLevel leave the marble
\* list empty and gameRunning false; no other handler creates or discards a
\* marble.
C18_MarblesLiveFromLaunchToReset ==
    [][/\ (last'.op = "launch" /\ Len(equations) >= 1) =>
              /\ Len(marbles') = MinI(Len(equations), 3)
              /\ gameRunning'
              /\ \E startPos \in StartPositions :
                     \A i \in 1..Len(marbles') :
                         marbles'[i] = Launched(startPos.x, startPos.y - (i - 1) * 500)
       /\ (last'.op = "launch" /\ Len(equations) = 0) =>
              marbles' = marbles /\ gameRunning' = gameRunning
       /\ last'.op \in {"reset", "newLevel"} => marbles' = <<>> /\ ~gameRunning'
       /\ last'.op \in {"add", "draw"} => Len(marbles') = Len(marbles)]_vars

\* a launch over four equations, which made three marbles, after marbles of an
\* earlier launch had moved
C18_ThreeMarblesForFourEquations ==
    /\ last.op = "launch" /\ Len(equations) = 4 /\ Len(marbles) = 3 /\ gameRunning
    /\ steps >= 3
    /\ \A i \in 1..3 : marbles[i].trail = <<>>

\* |velocity . tangent| and |velocity . normal| of the marble a call was
\* given, for the unit tangent and normal of its path info
tangentSpeed(c) == Abs(dot(c.before.velocity, normalize(c.pathInfo.tangent)))
normalSpeed(c) == Abs(dot(c.before.velocity, normalize(c.pathInfo.normal)))

\* the marble's velocity along the unit vector from it to the closest point
approachSpeed(c) ==
    dot(c.before.velocity,
        normalize(sub(Vector2D(c.pathInfo.closestPoint.x, c.pathInfo.closestPoint.y),
                      c.before.position)))

\* the three reasons to attach
movesAlong(c) == Gt(tangentSpeed(c), Mul(500, normalSpeed(c)))
isNear(c) == Lt(c.pathInfo.distance, 100)
approaches(c) == Gt(approachSpeed(c), 0)

\* C19: shouldAttachToPath(marble, pathInfo) is true if and only if
\* |velocity . tangent| > 0.5 |velocity . normal|, or pathInfo.distance < 0.1,
\* or the velocity has a strictly positive dot product with the unit vector
\* from the marble to closestPoint.  update asks it for every path info within
\* snapDistance and follows the answer.
C19_AttachIffAlongNearOrApproaching ==
    (Called /\ TheCall.pathInfo.ok) =>
        /\ shouldAttachToPath(TheCall.before, TheCall.pathInfo)
               <=> (movesAlong(TheCall) \/ isNear(TheCall) \/ approaches(TheCall))
        /\ TheCall.shouldAttach = "yes"
               => (movesAlong(TheCall) \/ isNear(TheCall) \/ approaches(TheCall))
        /\ TheCall.shouldAttach = "no"
               => ~(movesAlong(TheCall) \/ isNear(TheCall) \/ approaches(TheCall))
        /\ withinSnap(TheCall) => TheCall.shouldAttach # "unasked"

\* a marble attached for no other reason than that it approaches the path
C19_AttachedOnApproachAlone ==
    /\ Called /\ TheCall.pathInfo.ok /\ TheCall.shouldAttach = "yes"
    /\ ~movesAlong(TheCall) /\ ~isNear(TheCall) /\ approaches(TheCall)
    /\ TheCall.result.attached

\* the slope angle of the path of a call, and the speed of its marble after
\* updateOnPath
slopeAngle(c) == atan2(Abs(c.pathInfo.tangent.y), Abs(c.pathInfo.tangent.x))
boundSpeed(c) == magnitude(boundMarble(c).velocity)

\* rule (a): too steep for a marble this slow
tooSteep(c) == Gt(slopeAngle(c), maxSlopeAngle) /\ Lt(boundSpeed(c), detachThreshold)

\* rule (b): speed^2 |curvature| exceeds 2 |gravity cos(slopeAngle)|
thrownOff(c) ==
    Gt(Mul(Mul(boundSpeed(c), boundSpeed(c)), Abs(c.pathInfo.curvature)),
       Mul(2 * Scale, Abs(Mul(gravity, Cos(slopeAngle(c))))))

\* C20: shouldDetachFromPath(marble, pathInfo) is true if and only if (a) the
\* slope angle atan2(|tangent.y|, |tangent.x|) exceeds maxSlopeAngle and the
\* marble's speed is below detachThreshold, or (b) speed^2 |curvature| exceeds
\* 2 |gravity cos(slopeAngle)|; where the reported curvature is 0, as for
\* every polar and parametric curve and for straight lines, rule (b) does not
\* fire.
C20_DetachIffSteepOrThrownOff ==
    (Called /\ attachTaken(TheCall)) =>
        /\ shouldDetachFromPath(boundMarble(TheCall), TheCall.pathInfo)
               <=> (tooSteep(TheCall) \/ thrownOff(TheCall))
        /\ TheCall.shouldDetach = (IF tooSteep(TheCall) \/ thrownOff(TheCall)
                                   THEN "yes" ELSE "no")
        /\ TheCall.pathInfo.curvature = 0 => ~thrownOff(TheCall)
        /\ (\E j \in 1..Len(equations) :
                /\ equations[j].id = TheCall.pathInfo.equation
                /\ \/ equations[j].type \in {"polar", "parametric"}
                   \/ equations[j].fn \in {"linear", "const"} /\ equations[j].type # "implicit")
               => TheCall.pathInfo.curvature = 0

\* a marble thrown off a curve by rule (b) alone
C20_ThrownOffTheCurve ==
    /\ Called /\ attachTaken(TheCall) /\ TheCall.shouldDetach = "yes"
    /\ ~tooSteep(TheCall) /\ thrownOff(TheCall)
    /\ TheCall.result.detached

\* the marble's velocity when a call reached STEP 6, before the clamp
unclamped(c) == pathStep(c.before, c.pathInfo, Mul(c.dt, timeScale)).marble.velocity

\* a call that ended a step with a speed below minVelocity
nudged(c) == ~c.threw /\ Lt(magnitude(unclamped(c)), minVelocity)

\* C21: when the marble's speed at the end of a step is below minVelocity,
\* the nudge keeps the direction of the velocity if it is not zero, and if it
\* is exactly zero the new velocity points straight down: its x component is
\* zero and its y component has the sign of gravity.
C21_NudgeKeepsDirectionOrPointsDown ==
    (Called /\ nudged(TheCall)) =>
        IF unclamped(TheCall) = Vector2D(0, 0)
        THEN /\ TheCall.marble.velocity.x = 0
             /\ SgnI(TheCall.marble.velocity.y) = SgnI(gravity)
        ELSE /\ Mul(TheCall.marble.velocity.x, unclamped(TheCall).y)
                    = Mul(TheCall.marble.velocity.y, unclamped(TheCall).x)
             /\ Gt(dot(TheCall.marble.velocity, unclamped(TheCall)), 0)

rollingSpeed(c) ==
    Add(dot(c.before.velocity, normalize(c.pathInfo.tangent)),
        Mul(dot(Vector2D(0, gravity), normalize(c.pathInfo.tangent)),
            Mul(c.dt, timeScale)))
frictionImpulse(c) == Mul(Mul(rollingFriction, Abs(gravity)), Mul(c.dt, timeScale))
slowedSpeed(c) == applyFriction(rollingSpeed(c), Mul(c.dt, timeScale))

C23_SlowedByFriction ==
    /\ Called /\ attachTaken(TheCall) /\ TheCall.dt > 0
    /\ isFinite(rollingSpeed(TheCall))
    /\ Lt(frictionImpulse(TheCall), Abs(rollingSpeed(TheCall)))

\* the closest point of a bound step, the marble's position after the partial
\* snap, the distance left between them and the corrective velocity added
snapTarget(c) == Vector2D(c.pathInfo.closestPoint.x, c.pathInfo.closestPoint.y)
snapped(c) == lerp(c.before.position, snapTarget(c), snapStrength)
residual(c) == distanceTo(snapped(c), snapTarget(c))
correction(c) == correctionForce(snapped(c), snapTarget(c), normalize(c.pathInfo.normal))

\* C24: in bound dynamics, when the distance left to closestPoint after the
\* partial snap exceeds 0.01, the corrective velocity points from the marble
\* toward closestPoint, on whichever side of the curve the marble lies, and
\* its magnitude is half the distance left; when the distance is at most 0.01
\* nothing is added.
C24_CorrectionPointsToTheCurve ==
    (Called /\ attachTaken(TheCall) /\ isFiniteVec(snapped(TheCall))) =>
        IF Gt(residual(TheCall), 10)
        THEN /\ Ge(dot(correction(TheCall), sub(snapTarget(TheCall), snapped(TheCall))), 0)
             /\ Abs(Sub(magnitude(correction(TheCall)), Mul(residual(TheCall), 500))) <= 1
        ELSE correction(TheCall) = Vector2D(0, 0)

\* the marbles the last operation wrote
touched ==
    CASE last.op \in {"update", "legacy", "marbleReset"} -> {last.i}
      [] last.op = "draw" -> 1..Len(marbles)
      [] OTHER -> {}

\* C25: after every update and after Marble.reset, marble.onPath is true
\* exactly when marble.currentEquation is not null, and then the equation is
\* one of the curves passed to the call, and not an inequality.
C25_BoundToACurveOfTheCall ==
    \A i \in touched :
        /\ marbles[i].onPath <=> marbles[i].currentEquation # 0
        /\ marbles[i].currentEquation # 0 =>
               \E j \in 1..Len(equations) :
                   /\ equations[j].id = marbles[i].currentEquation
                   /\ equations[j].type # "inequality"

\* a bound marble that was reset
C25_ResetWhileBound ==
    /\ last.op = "marbleReset"
    /\ last.before.onPath /\ last.before.currentEquation # 0
    /\ ~TheMarble.onPath

\* a marble bound to a curve while an inequality was among the curves
C25_BoundBesideAnInequality ==
    /\ last.op = "update" /\ TheMarble.onPath
    /\ \E j \in 1..Len(equations) : equations[j].type = "inequality"

\* C26: every passage from Bound to Free is reported: when marble.onPath was
\* true before a call of update and is false after it, the result of the
\* call has detached = true.
C26_LeavingIsReported ==
    (Called /\ ~TheCall.threw /\ TheCall.before.onPath /\ ~TheCall.marble.onPath)
        => TheCall.result.detached

\* the number of stars whose collected flag is set
collectedStars == Cardinality({k \in 1..Len(stars) : stars[k].collected})

\* C27: in every state of the game, whatever the order of new levels,
\* launches, frames over up to three marbles sharing the stars, and resets,
\* starsCollected is the number of stars whose collected flag is true, and
\* is at most stars.length.
C27_CounterIsTheCollectedStars ==
    /\ starsCollected = collectedStars
    /\ starsCollected <= Len(stars)
    /\ Len(marbles) <= 3

\* a frame over three marbles after which some star, not every star, is
\* collected
C27_SomeCollectedByThree ==
    /\ last.op = "draw" /\ Len(marbles) = 3
    /\ starsCollected > 0 /\ starsCollected < Len(stars)
    /\ \E c \in 1..Len(last.calls) : last.calls[c].result.starsCollected # {}

\* no marble is within the bounds of the world, and there is one
allMarblesOut ==
    /\ Len(marbles) > 0
    /\ \A i \in 1..Len(marbles) : ~checkBounds(marbles[i], worldBounds)

\* the stars the calls of the last frame collected
collectedInFrame == UNION {last.calls[c].result.starsCollected : c \in 1..Len(last.calls)}

\* C28: after a tick of Game.update with at least one marble and no marble
\* within bounds, gameRunning is false; if not all stars were collected, every
\* star is uncollected again and starsCollected is 0, and if all were
\* collected they stay collected.  gameRunning is also false after the tick
\* in which the last uncollected star is collected.
C28_StopsWhenAllOutOrAllCollected ==
    [][last'.op = "draw" =>
          /\ allMarblesOut' =>
                 /\ ~gameRunning'
                 /\ IF starsCollected + Cardinality(collectedInFrame') < Len(stars)
                    THEN /\ \A k \in 1..Len(stars') : ~stars'[k].collected
                         /\ starsCollected' = 0
                    ELSE /\ \A k \in 1..Len(stars') : stars'[k].collected
                         /\ starsCollected' = Len(stars')
          /\ ( /\ collectedInFrame' # {}
               /\ \A k \in 1..Len(stars) :
                      stars[k].collected \/ k \in collectedInFrame' )
                 => ~gameRunning']_vars

\* a frame in which the only marble collected a star and left the world with
\* another star uncollected: the star was given back
C28_FailedWithAStarInHand ==
    /\ last.op = "draw" /\ allMarblesOut /\ ~gameRunning
    /\ collectedInFrame # {}
    /\ starsCollected = 0 /\ Len(stars) > 1

\* a frame in which the marble collected the only star and left the world
C28_LeftWithEveryStar ==
    /\ last.op = "draw" /\ allMarblesOut /\ ~gameRunning
    /\ collectedInFrame # {}
    /\ starsCollected = Len(stars)

\* C29: non-finite results of an evaluator never reach the marble: when its
\* position and velocity are finite before update, they are finite after it,
\* for curves of every kind.
C29_MarbleStaysFinite ==
    (Called /\ isFiniteVec(TheCall.before.position) /\ isFiniteVec(TheCall.before.velocity))
        => /\ isFiniteVec(TheCall.marble.position)
           /\ isFiniteVec(TheCall.marble.velocity)

\* the curve of the call with the given id
curveOf(id) == CHOOSE e \in {equations[j] : j \in 1..Len(equations)} : e.id = id

\* the path infos of the implicit curves a call analysed, with a finite distance
implicitInfos(c) ==
    {c.analysed[k] : k \in {n \in 1..Len(c.analysed) :
                               /\ c.analysed[n].ok
                               /\ curveOf(c.analysed[n].equation).type = "implicit"
                               /\ isFinite(c.analysed[n].distance)}}

\* the marble of the call sat where the gradient of the curve is flat, off the
\* curve
onFlatGround(c, info) ==
    /\ Lt(magnitude(calculateGradient(curveOf(info.equation),
                                      c.before.position.x, c.before.position.y)), 1)
    /\ Ge(Abs(evaluate2(curveOf(info.equation),
                        c.before.position.x, c.before.position.y)),
          implicitOnCurve * Scale)

\* C30: whenever analyzeImplicit returns a path info with a finite distance,
\* its closestPoint is on the curve up to the tolerance of the search,
\* |f(closestPoint)| < 0.01; a marble sitting where the gradient is flat but
\* |f| >= 0.01 is not reported at distance 0 and is not attached as being
\* within 0.1 of the curve.
C30_ClosestPointIsOnTheCurve ==
    Called =>
        \A info \in implicitInfos(TheCall) :
            /\ Lt(Abs(evaluate2(curveOf(info.equation),
                                info.closestPoint.x, info.closestPoint.y)),
                  implicitOnCurve * Scale)
            /\ onFlatGround(TheCall, info) =>
                   /\ info.distance # 0
                   /\ ~(info = TheCall.pathInfo /\ TheMarble.onPath)

====
